---------------------------- MODULE Spec2Model ----------------------------
(***************************************************************************)
(* Crop growth / health / ripening engine of soil-digital-grow and the     *)
(* dashboard that drives it.                                               *)
(*                                                                         *)
(* Number representation.  The program computes with JavaScript numbers.   *)
(* Every reading (moisture, temperature, pH, ...) and every optimal-range  *)
(* bound is held here as an integer count of thousandths (28.0 degrees is  *)
(* 28000, pH 6.5 is 6500); U(x) converts whole units.  Weeks, days, plant  *)
(* heights (cm) and the health index are plain integers; ripening days are *)
(* tenths of a day.  The ripening speed is an integer count of 1/40000     *)
(* (1.0 is 40000), the unit in which the ramp 0.3 + (dT/8)*0.2 is exact    *)
(* for thousandths of a degree.  Arithmetic is exact where the exact value *)
(* and the program's double give the same result; where a Math.round may   *)
(* turn on the last bit of a double (calculatePlantHealth and             *)
(* getYieldEstimate at a tie k + 1/2) the double is computed, bit for bit. *)
(***************************************************************************)
EXTENDS Integers, Sequences, FiniteSets, TLC

VARIABLES
    readings,          \* Dashboard.tsx:46-56  the eleven sensor useState cells
    selectedCrop,      \* Dashboard.tsx:62     crop id handed to the engine
    currentWeek,       \* Dashboard.tsx:63     elapsed weeks handed to the engine
    health,            \* health argument of getYieldEstimate
    daysIntoRipening,  \* part_007:397      elapsed ripening days, in tenths of a day
    effectPending,     \* part_007:421-427  a render is committed and the days effect has yet to run
    lastOp,            \* the handler that ran last: [kind, factor, value]
    prevOp,            \* the handler that ran before it
    prevReadings,      \* the readings as the last handler found them
    steps,             \* number of handlers run so far (bounded by MaxSteps)
    call,              \* name of the engine function applied last
    out,               \* what that function returned
    isTracking,        \* PlantGrowthResults.tsx:48  the growth simulation is running
    snapshots,         \* PlantGrowthResults.tsx:47  weekNumber of each GrowthSnapshot kept
    deployment,        \* the edge function deployed and its environment: [source, apiKey]
    request,           \* per request id: [method, body, parseError, image]
    edgePc,            \* per request id, the await its handler stands at, "idle" or "done"
    upstreamCalls,     \* per request id, the fetches sent to the AI gateway
    gatewayReply,      \* per request id, the gateway's reply: [status, ok, body, content, analysis]
    response           \* per request id, the Response returned: [status, error, analysis]

trackingVars == <<isTracking, snapshots>>

edgeVars == <<deployment, request, edgePc, upstreamCalls, gatewayReply, response>>

vars == <<readings, selectedCrop, currentWeek, health, daysIntoRipening, effectPending,
          lastOp, prevOp, prevReadings, steps, call, out, trackingVars, edgeVars>>

\* what an engine call reads and leaves as it found it
inputVars == <<readings, selectedCrop, currentWeek, health, daysIntoRipening, effectPending,
               lastOp, prevOp, prevReadings, steps, trackingVars, edgeVars>>

U(x) == x * 1000

Range(lo, hi) == [min |-> lo, max |-> hi]

\* Math.max, Math.min; each operand is evaluated once
Max(a, b) == CHOOSE greater \in { IF x >= y THEN x ELSE y : x \in {a}, y \in {b} } : TRUE

Min(a, b) == CHOOSE smaller \in { IF x <= y THEN x ELSE y : x \in {a}, y \in {b} } : TRUE

(***************************************************************************)
(* Math.round: the nearest integer, a tie going up.  x is num/den, den > 0 *)
(***************************************************************************)
MathRound(num, den) == CHOOSE whole \in { (2 * n + d) \div (2 * d) : n \in {num}, d \in {den} } : TRUE

(***************************************************************************)
(* The arithmetic of a JavaScript number: IEEE 754 binary64 with round to  *)
(* nearest, ties to even, for the non-negative values the scorer and the   *)
(* yield estimate compute.  A natural number of any size is a sequence of  *)
(* limbs in base 2^15, least significant first and without leading zero    *)
(* limbs; a double is [m, e], the value m * 2^e with m at most 2^53.       *)
(* An operation takes the values of its operands first (the one element of *)
(* {x}) and computes on them.                                              *)
(***************************************************************************)
LimbBits == 15

LimbBase == 2 ^ LimbBits

MantissaBits == 53

\* the position of the most significant limb of a that is not zero
Top(a) == IF \A i \in DOMAIN a : a[i] = 0 THEN 0 ELSE CHOOSE i \in DOMAIN a : a[i] # 0 /\ \A j \in DOMAIN a : j > i => a[j] = 0

Trim(a) == CHOOSE t \in { SubSeq(x, 1, Top(x)) : x \in {a} } : TRUE

\* the limbs of n, for n below 2^31
Limbs(n) == Trim(<<n % LimbBase, (n \div LimbBase) % LimbBase, n \div (LimbBase * LimbBase)>>)

Limb(a, i) == IF i \in 1..Len(a) THEN a[i] ELSE 0

\* adding a and b carries into limb i
Carry(a, b, i) == \E j \in 1..(i - 1) : Limb(a, j) + Limb(b, j) >= LimbBase /\ \A k \in (j + 1)..(i - 1) : Limb(a, k) + Limb(b, k) = LimbBase - 1

Add(a, b) == CHOOSE sum \in { Trim([i \in 1..(Max(Len(x), Len(y)) + 1) |-> (Limb(x, i) + Limb(y, i) + IF Carry(x, y, i) THEN 1 ELSE 0) % LimbBase]) : x \in {a}, y \in {b} } : TRUE

\* subtracting b from a borrows from limb i
Borrow(a, b, i) == \E j \in 1..(i - 1) : Limb(a, j) < Limb(b, j) /\ \A k \in (j + 1)..(i - 1) : Limb(a, k) = Limb(b, k)

\* a - b for a >= b
Sub(a, b) == CHOOSE difference \in { Trim([i \in 1..Len(x) |-> (x[i] - Limb(y, i) - (IF Borrow(x, y, i) THEN 1 ELSE 0) + LimbBase) % LimbBase]) : x \in {a}, y \in {b} } : TRUE

ShiftLimbs(a, n) == CHOOSE shifted \in { IF Len(x) = 0 THEN << >> ELSE [i \in 1..(Len(x) + n) |-> IF i <= n THEN 0 ELSE x[i - n]] : x \in {a} } : TRUE

\* a * k for k below the limb base: the low halves of the limb products plus
\* their high halves one limb up
MulSmall(a, k) == CHOOSE product \in { Add([i \in 1..Len(x) |-> (x[i] * k) % LimbBase], [i \in 1..(Len(x) + 1) |-> IF i = 1 THEN 0 ELSE (x[i - 1] * k) \div LimbBase]) : x \in {a} } : TRUE

\* a * b for b of at most four limbs, as a mantissa is
Mul(a, b) == CHOOSE product \in { Add(Add(p1, ShiftLimbs(p2, 1)), Add(ShiftLimbs(p3, 2), ShiftLimbs(p4, 3))) : p1 \in {MulSmall(a, Limb(b, 1))}, p2 \in {MulSmall(a, Limb(b, 2))}, p3 \in {MulSmall(a, Limb(b, 3))}, p4 \in {MulSmall(a, Limb(b, 4))} } : TRUE

\* the number held by the limbs of a from limb i up, modulo k
RECURSIVE TopMod(_, _, _)
TopMod(a, k, i) == IF i > Len(a) THEN 0 ELSE (TopMod(a, k, i + 1) * LimbBase + a[i]) % k

\* the quotient of a by k, for k up to the limb base: long division
DivSmall(a, k) == CHOOSE quotient \in { Trim([i \in 1..Len(x) |-> (TopMod(x, k, i + 1) * LimbBase + x[i]) \div k]) : x \in {a} } : TRUE

RemSmall(a, k) == TopMod(a, k, 1)

Shl(a, s) == ShiftLimbs(MulSmall(a, 2 ^ (s % LimbBits)), s \div LimbBits)

Shr(a, s) == CHOOSE shifted \in { Trim([i \in 1..(Len(x) - s \div LimbBits) |-> Limb(x, i + s \div LimbBits) \div 2 ^ (s % LimbBits) + (Limb(x, i + s \div LimbBits + 1) % 2 ^ (s % LimbBits)) * 2 ^ (LimbBits - (s % LimbBits))]) : x \in {a} } : TRUE

\* bit i of a, bit 0 the least significant
Bit(a, i) == (Limb(a, i \div LimbBits + 1) \div 2 ^ (i % LimbBits)) % 2

\* the s low bits of a are all zero
LowZero(a, s) == /\ \A i \in 1..(s \div LimbBits) : Limb(a, i) = 0
                 /\ Limb(a, s \div LimbBits + 1) % 2 ^ (s % LimbBits) = 0

BitLen(a) == IF Len(a) = 0 THEN 0 ELSE LimbBits * (Len(a) - 1) + Cardinality({b \in 0..(LimbBits - 1) : 2 ^ b <= a[Len(a)]})

LessLimbs(a, b) == IF Len(a) # Len(b) THEN Len(a) < Len(b) ELSE \E i \in 1..Len(a) : a[i] < b[i] /\ \A j \in (i + 1)..Len(a) : a[j] = b[j]

\* the limbs a with their low bits dropped to leave MantissaBits, rounded to
\* nearest on the bits dropped (and a non-zero fraction below them when
\* sticky), a tie to the even mantissa
RoundLimbs(a, drop, sticky) == IF Bit(a, drop - 1) = 1 /\ (sticky \/ ~LowZero(a, drop - 1) \/ Bit(a, drop) = 1) THEN Add(Shr(a, drop), <<1>>) ELSE Shr(a, drop)

\* a * 2^e, plus a non-zero fraction of its last place when sticky, rounded
\* to a double
Round(a, e, sticky) == CHOOSE double \in { IF BitLen(x) <= MantissaBits THEN [m |-> x, e |-> e] ELSE [m |-> RoundLimbs(x, BitLen(x) - MantissaBits, sticky), e |-> e + BitLen(x) - MantissaBits] : x \in {a} } : TRUE

GuardLimbs == 5

\* the double nearest to n / d, what a decimal literal or a reading with
\* that value denotes, for d up to the limb base
Decimal(n, d) == CHOOSE double \in { Round(DivSmall(scaled, d), 0 - GuardLimbs * LimbBits, RemSmall(scaled, d) # 0) : scaled \in {ShiftLimbs(Limbs(n), GuardLimbs)} } : TRUE

\* the mantissa of x at the smaller of the exponents of x and y
Aligned(x, y) == Shl(x.m, x.e - Min(x.e, y.e))

\* x + y
Plus(x, y) == CHOOSE sum \in { Round(Add(Aligned(a, b), Aligned(b, a)), Min(a.e, b.e), FALSE) : a \in {x}, b \in {y} } : TRUE

\* x - y for x >= y
Minus(x, y) == CHOOSE difference \in { Round(Sub(Aligned(a, b), Aligned(b, a)), Min(a.e, b.e), FALSE) : a \in {x}, b \in {y} } : TRUE

\* x * y
Times(x, y) == CHOOSE product \in { Round(Mul(a.m, b.m), a.e + b.e, FALSE) : a \in {x}, b \in {y} } : TRUE

\* x / k for a whole k up to the limb base
DividedBy(x, k) == CHOOSE quotient \in { Round(DivSmall(scaled, k), x.e - GuardLimbs * LimbBits, RemSmall(scaled, k) # 0) : scaled \in {ShiftLimbs(x.m, GuardLimbs)} } : TRUE

\* x < y
Less(x, y) == \E a \in {x}, b \in {y} : LessLimbs(Aligned(a, b), Aligned(b, a))

\* the double k + 1/2, where Math.round turns from k to k + 1
Tie(k) == [m |-> Limbs(2 * k + 1), e |-> 0 - 1]

\* Math.round(x) as a whole number below 2^30: the integer nearest to x, a
\* tie going up
MathRoundDouble(x) == CHOOSE whole \in { Limb(a, 1) + LimbBase * Limb(a, 2) : a \in {IF x.e >= 0 THEN Shl(x.m, x.e) ELSE Shr(Add(x.m, Shl(<<1>>, 0 - x.e - 1)), 0 - x.e)} } : TRUE

(***************************************************************************)
(* Crop catalog: cropData.ts CROP_DATA.  Fields that no computation reads  *)
(* (description, waterRequirement, keyActivities, colours) are left out.   *)
(***************************************************************************)
Stage(n, s, e, t, m, p, h) ==
    [name |-> n, startWeek |-> s, endWeek |-> e, optimalTemp |-> t,
     optimalMoisture |-> m, optimalPh |-> p, expectedHeight |-> h]

TomatoStages ==
    << Stage("Seedling Stage", 1, 3, Range(24000, 28000), Range(70000, 80000),
             Range(6000, 6500), Range(5, 15)),
       Stage("Vegetative Growth", 4, 7, Range(22000, 28000), Range(60000, 75000),
             Range(6000, 6800), Range(30, 60)),
       Stage("Flowering Stage", 8, 10, Range(21000, 27000), Range(65000, 80000),
             Range(6200, 6800), Range(60, 90)),
       Stage("Fruit Development", 11, 14, Range(20000, 28000), Range(60000, 75000),
             Range(6000, 6800), Range(90, 150)),
       Stage("Harvesting Stage", 15, 16, Range(20000, 26000), Range(55000, 70000),
             Range(6000, 6800), Range(120, 180)) >>

ChiliStages ==
    << Stage("Seedling Stage", 1, 4, Range(25000, 30000), Range(70000, 80000),
             Range(6000, 6500), Range(5, 12)),
       Stage("Vegetative Growth", 5, 9, Range(22000, 30000), Range(60000, 75000),
             Range(6000, 7000), Range(20, 45)),
       Stage("Flowering Stage", 10, 13, Range(20000, 28000), Range(60000, 70000),
             Range(6200, 6800), Range(45, 65)),
       Stage("Fruit Development", 14, 17, Range(22000, 30000), Range(55000, 70000),
             Range(6000, 7000), Range(60, 90)),
       Stage("Harvesting Stage", 18, 20, Range(20000, 28000), Range(50000, 65000),
             Range(6000, 7000), Range(75, 120)) >>

BrinjalStages ==
    << Stage("Seedling Stage", 1, 4, Range(25000, 30000), Range(70000, 85000),
             Range(5500, 6500), Range(8, 18)),
       Stage("Vegetative Growth", 5, 8, Range(24000, 32000), Range(65000, 80000),
             Range(5500, 6800), Range(25, 50)),
       Stage("Flowering Stage", 9, 11, Range(22000, 30000), Range(65000, 75000),
             Range(6000, 6800), Range(50, 75)),
       Stage("Fruit Development", 12, 15, Range(24000, 32000), Range(60000, 75000),
             Range(5500, 6800), Range(70, 100)),
       Stage("Harvesting Stage", 16, 18, Range(22000, 30000), Range(55000, 70000),
             Range(5500, 6800), Range(90, 130)) >>

TomatoData ==
    [id |-> "tomato", totalDuration |-> 16,
     optimalTemperature |-> Range(21000, 29000),
     optimalMoisture |-> Range(60000, 80000),
     optimalPh |-> Range(6000, 6800),
     optimalHumidity |-> Range(50000, 70000),
     yieldPerHectare |-> "25-40 tons",
     stages |-> TomatoStages]

ChiliData ==
    [id |-> "chili", totalDuration |-> 20,
     optimalTemperature |-> Range(20000, 32000),
     optimalMoisture |-> Range(55000, 75000),
     optimalPh |-> Range(6000, 7000),
     optimalHumidity |-> Range(45000, 65000),
     yieldPerHectare |-> "8-15 tons",
     stages |-> ChiliStages]

BrinjalData ==
    [id |-> "brinjal", totalDuration |-> 18,
     optimalTemperature |-> Range(22000, 35000),
     optimalMoisture |-> Range(60000, 80000),
     optimalPh |-> Range(5500, 6800),
     optimalHumidity |-> Range(50000, 70000),
     yieldPerHectare |-> "20-35 tons",
     stages |-> BrinjalStages]

\* the catalog with a one-week typo: chili's Flowering Stage starts at 11, not 10
CROP_DATA_Gap ==
    [tomato |-> TomatoData,
     chili |-> [ChiliData EXCEPT !.stages[3].startWeek = 11],
     brinjal |-> BrinjalData]

CROP_DATA == [tomato |-> TomatoData, chili |-> ChiliData, brinjal |-> BrinjalData]

\* the ids for which CROP_DATA[cropId] is defined
CropIds == DOMAIN CROP_DATA

\* an id the catalog does not hold: CROP_DATA[cropId] is undefined for it
UnknownCrop == "wheat"

\* ids the catalog does not hold either, but which name a member that every
\* JavaScript object inherits from Object.prototype: CROP_DATA[cropId] and
\* CROP_RIPENESS_DATA[cropId] evaluate to that member, which is truthy, so
\* the `if (!crop)` guards let it pass and the fields read from it are
\* undefined
InheritedIds ==
    {"constructor", "toString", "toLocaleString", "valueOf", "hasOwnProperty",
     "isPrototypeOf", "propertyIsEnumerable", "__proto__", "__defineGetter__",
     "__defineSetter__", "__lookupGetter__", "__lookupSetter__"}

InheritedCrop == "constructor"

AnyCrop == CropIds \cup {UnknownCrop, InheritedCrop}

\* the outcome of a call that throws: reading a property of undefined
TypeError == [name |-> "TypeError"]

\* the number NaN, the result of arithmetic on undefined
NaN == [num |-> 0, den |-> 0]

\* the value of a `GrowthStage | null` that is null
NullStage == [name |-> "null"]

(***************************************************************************)
(* cropData.ts getCurrentStage: Array.find returns the first stage whose   *)
(* week interval holds currentWeek, null when there is none.               *)
(***************************************************************************)
\* the first comparison made strict
StageMatches_Exclusive(stage, week) == week > stage.startWeek /\ week <= stage.endWeek

StageMatches(stage, week) == week >= stage.startWeek /\ week <= stage.endWeek

getCurrentStage(cropId, week) ==
    IF cropId \in InheritedIds THEN TypeError
    ELSE IF cropId \notin CropIds THEN NullStage
    ELSE LET stages == CROP_DATA[cropId].stages
             hits == {i \in DOMAIN stages : StageMatches(stages[i], week)}
         IN  IF hits = {} THEN NullStage
             ELSE stages[CHOOSE i \in hits : \A j \in hits : i <= j]


(***************************************************************************)
(* cropData.ts calculatePlantHealth.  Each penalty is the distance to the  *)
(* nearer bound of the CROP-LEVEL optimal range times a weight that        *)
(* depends on the side; the operators below return it in ten-thousandths   *)
(* (thousandths of distance times ten times the weight).                   *)
(***************************************************************************)
\* the two side weights of the moisture check exchanged
MoisturePenalty_SwappedWeights(crop, moisture) ==
    IF moisture < crop.optimalMoisture.min
    THEN (crop.optimalMoisture.min - moisture) * 6
    ELSE IF moisture > crop.optimalMoisture.max
         THEN (moisture - crop.optimalMoisture.max) * 8
         ELSE 0

MoisturePenalty(crop, moisture) ==
    IF moisture < crop.optimalMoisture.min
    THEN (crop.optimalMoisture.min - moisture) * 8
    ELSE IF moisture > crop.optimalMoisture.max
         THEN (moisture - crop.optimalMoisture.max) * 6
         ELSE 0

\* the high side subtracting in the wrong order: (max - temperature) * 2.5
TemperaturePenalty_SignFlipped(crop, temperature) ==
    IF temperature < crop.optimalTemperature.min
    THEN (crop.optimalTemperature.min - temperature) * 20
    ELSE IF temperature > crop.optimalTemperature.max
         THEN (crop.optimalTemperature.max - temperature) * 25
         ELSE 0

TemperaturePenalty(crop, temperature) ==
    IF temperature < crop.optimalTemperature.min
    THEN (crop.optimalTemperature.min - temperature) * 20
    ELSE IF temperature > crop.optimalTemperature.max
         THEN (temperature - crop.optimalTemperature.max) * 25
         ELSE 0

PhPenalty(crop, soilPh) ==
    IF soilPh < crop.optimalPh.min
    THEN (crop.optimalPh.min - soilPh) * 120
    ELSE IF soilPh > crop.optimalPh.max
         THEN (soilPh - crop.optimalPh.max) * 120
         ELSE 0

\* the copy-and-paste slip of reading the moisture range for humidity
HumidityPenalty_MoistureRange(crop, humidity) ==
    IF humidity < crop.optimalMoisture.min
    THEN (crop.optimalMoisture.min - humidity) * 3
    ELSE IF humidity > crop.optimalMoisture.max
         THEN (humidity - crop.optimalMoisture.max) * 4
         ELSE 0

HumidityPenalty(crop, humidity) ==
    IF humidity < crop.optimalHumidity.min
    THEN (crop.optimalHumidity.min - humidity) * 3
    ELSE IF humidity > crop.optimalHumidity.max
         THEN (humidity - crop.optimalHumidity.max) * 4
         ELSE 0

\* cropData.ts:359  `if (lightIntensity < 50)`
LightFloor == 50000

LightPenalty(lightIntensity) ==
    IF lightIntensity < LightFloor THEN (LightFloor - lightIntensity) * 4 ELSE 0

\* `health` just before the return statement, in ten-thousandths
RawHealth(crop, moisture, temperature, soilPh, humidity, lightIntensity) ==
    1000000 - MoisturePenalty(crop, moisture)
            - TemperaturePenalty(crop, temperature)
            - PhPenalty(crop, soilPh)
            - HumidityPenalty(crop, humidity)
            - LightPenalty(lightIntensity)

\* a reading or a range bound, held here in thousandths, as the double the
\* code holds
Reading(v) == Decimal(v, 1000)

\* `health -= (a - b) * weight` in doubles, for a > b in thousandths and the
\* weight in tenths; a negative reading b is the double -|b|.  The distance,
\* the penalty and the new health are computed one after the other: each set
\* holds the one value computed.
Deduct(h, a, b, weight) ==
    CHOOSE after \in
        { Minus(h, penalty) :
            penalty \in
                { Times(distance, Decimal(weight, 10)) :
                    distance \in { IF b < 0 THEN Plus(Reading(a), Reading(0 - b))
                                   ELSE Minus(Reading(a), Reading(b)) } } } : TRUE

\* one `if (value < min) .. else if (value > max) ..` of the scorer
DeductRange(h, range, value, lowWeight, highWeight) == IF value < range.min THEN Deduct(h, range.min, value, lowWeight) ELSE IF value > range.max THEN Deduct(h, value, range.max, highWeight) ELSE h

\* `health` just before the return statement as the double the code holds:
\* 100 less each penalty, statement after statement in the order of the code
\* (the innermost set first), every product and every difference rounded to
\* a double.  Each set holds the one value of `health` after a statement.
\* Defined where the exact health is not negative.
HealthDouble(crop, moisture, temperature, soilPh, humidity, lightIntensity) ==
    CHOOSE afterLight \in
        { IF lightIntensity < LightFloor
          THEN Deduct(afterHumidity, LightFloor, lightIntensity, 4)
          ELSE afterHumidity :
            afterHumidity \in
                { DeductRange(afterPh, crop.optimalHumidity, humidity, 3, 4) :
                    afterPh \in
                        { DeductRange(afterTemperature, crop.optimalPh, soilPh, 120, 120) :
                            afterTemperature \in
                                { DeductRange(afterMoisture, crop.optimalTemperature,
                                              temperature, 20, 25) :
                                    afterMoisture \in
                                        { DeductRange(Decimal(100, 1), crop.optimalMoisture,
                                                      moisture, 8, 6) } } } } } : TRUE

\* Math.round(health).  The double the code holds lies within a millionth of
\* the exact sum, so the exact sum decides the result except where it is a tie
\* k + 1/2: there the double may have fallen below the tie, and Math.round
\* then gives k, not k + 1.  (Below 0 and above 100 the clamp decides.)
RoundHealth(crop, moisture, temperature, soilPh, humidity, lightIntensity) ==
    LET raw == RawHealth(crop, moisture, temperature, soilPh, humidity, lightIntensity)
        k == raw \div 10000
    IN  IF raw > 0 /\ raw < 1000000 /\ raw % 10000 = 5000
        THEN IF Less(HealthDouble(crop, moisture, temperature, soilPh, humidity,
                                  lightIntensity), Tie(k))
             THEN k
             ELSE k + 1
        ELSE MathRound(raw, 10000)

\* a sentinel no known crop can score
UnknownCropHealth_Sentinel == 0 - 1

\* cropData.ts:311  `if (!crop) return 50`
UnknownCropHealth == 50

calculatePlantHealth(cropId, moisture, temperature, soilPh, humidity, lightIntensity) ==
    IF cropId \in InheritedIds THEN TypeError
    ELSE IF cropId \notin CropIds THEN UnknownCropHealth
    ELSE Max(0, Min(100,
             RoundHealth(CROP_DATA[cropId], moisture, temperature,
                         soilPh, humidity, lightIntensity)))

(***************************************************************************)
(* CropTimeline.tsx getStageStatus: how the timeline labels a stage.       *)
(***************************************************************************)
getStageStatus(stage, week) ==
    IF week > stage.endWeek THEN "completed"
    ELSE IF week >= stage.startWeek /\ week <= stage.endWeek THEN "active"
    ELSE "upcoming"

(***************************************************************************)
(* cropData.ts getStageProgress: Math.min(100, weeksIntoStage / stageWeeks *)
(* * 100), returned as the fraction num/den.                               *)
(***************************************************************************)
\* the weeks into the stage counted from 0: currentWeek - stage.startWeek
getStageProgress_FromZero(cropId, week) ==
    IF cropId \in InheritedIds THEN TypeError
    ELSE IF cropId \notin CropIds THEN [num |-> 0, den |-> 1]
    ELSE LET stage == getCurrentStage(cropId, week)
         IN  IF stage = NullStage THEN [num |-> 100, den |-> 1]
             ELSE LET stageWeeks == stage.endWeek - stage.startWeek + 1
                      weeksIntoStage == week - stage.startWeek
                  IN  [num |-> Min(100 * stageWeeks, 100 * weeksIntoStage),
                       den |-> stageWeeks]

getStageProgress(cropId, week) ==
    IF cropId \in InheritedIds THEN TypeError
    ELSE IF cropId \notin CropIds THEN [num |-> 0, den |-> 1]
    ELSE LET stage == getCurrentStage(cropId, week)
         IN  IF stage = NullStage THEN [num |-> 100, den |-> 1]
             ELSE LET stageWeeks == stage.endWeek - stage.startWeek + 1
                      weeksIntoStage == week - stage.startWeek + 1
                  IN  [num |-> Min(100 * stageWeeks, 100 * weeksIntoStage),
                       den |-> stageWeeks]

(***************************************************************************)
(* cropData.ts getExpectedHeight, in whole cm: Math.round(min + heightRange *)
(* * stageProgress) with stageProgress = getStageProgress / 100.           *)
(***************************************************************************)
\* a week past every stage answered like an unknown crop: 0
getExpectedHeight_ZeroPastStages(cropId, week) ==
    IF cropId \in InheritedIds THEN TypeError
    ELSE IF cropId \notin CropIds THEN 0
    ELSE LET crop == CROP_DATA[cropId]
             stage == getCurrentStage(cropId, week)
         IN  IF stage = NullStage
             THEN 0
             ELSE LET stageProgress == getStageProgress(cropId, week)
                      heightRange == stage.expectedHeight.max - stage.expectedHeight.min
                  IN  MathRound(stage.expectedHeight.min * 100 * stageProgress.den
                                    + heightRange * stageProgress.num,
                                100 * stageProgress.den)

getExpectedHeight(cropId, week) ==
    IF cropId \in InheritedIds THEN TypeError
    ELSE IF cropId \notin CropIds THEN 0
    ELSE LET crop == CROP_DATA[cropId]
             stage == getCurrentStage(cropId, week)
         IN  IF stage = NullStage
             THEN crop.stages[Len(crop.stages)].expectedHeight.max
             ELSE LET stageProgress == getStageProgress(cropId, week)
                      heightRange == stage.expectedHeight.max - stage.expectedHeight.min
                  IN  MathRound(stage.expectedHeight.min * 100 * stageProgress.den
                                    + heightRange * stageProgress.num,
                                100 * stageProgress.den)

(***************************************************************************)
(* cropData.ts getOverallProgress: Math.min(100, week/totalDuration*100),  *)
(* returned as the fraction num/den.                                       *)
(***************************************************************************)
getOverallProgress(cropId, week) ==
    IF cropId \in InheritedIds THEN NaN
    ELSE IF cropId \notin CropIds THEN [num |-> 0, den |-> 1]
    ELSE LET total == CROP_DATA[cropId].totalDuration
         IN  [num |-> Min(100 * total, 100 * week), den |-> total]

\* the position counted from 1
StageIndex_OneBased(cropId, stage) ==
    LET stages == CROP_DATA[cropId].stages
        at == {i \in DOMAIN stages : stages[i] = stage}
    IN  IF at = {} THEN 0 - 1 ELSE CHOOSE i \in at : \A j \in at : i <= j

\* crop.stages.indexOf(stage), 0-based; -1 when the stage is null
StageIndex(cropId, stage) ==
    LET stages == CROP_DATA[cropId].stages
        at == {i \in DOMAIN stages : stages[i] = stage}
    IN  IF at = {} THEN 0 - 1 ELSE (CHOOSE i \in at : \A j \in at : i <= j) - 1

(***************************************************************************)
(* The yield percentage is computed in doubles, as the code computes it:   *)
(* where the exact product (health/100) * (progress/100) * 100 is a tie    *)
(* k + 1/2 the double may lie below it, and Math.round then gives k.       *)
(***************************************************************************)
\* getOverallProgress as the double it returns:
\* Math.min(100, (week / total) * 100); the set holds the one value computed
OverallProgressDouble(cropId, week) ==
    CHOOSE capped \in
        { IF Less(Decimal(100, 1), progress) THEN Decimal(100, 1) ELSE progress :
            progress \in { Times(Decimal(week, CROP_DATA[cropId].totalDuration),
                                 Decimal(100, 1)) } } : TRUE

\* Math.round(healthFactor * progressFactor * 100) for a whole health h >= 0,
\* in doubles; each set holds the one value of a `const` of the code
YieldPercentageDouble(cropId, h, week) ==
    CHOOSE yieldPercentage \in
        { MathRoundDouble(Times(Times(healthFactor, progressFactor), Decimal(100, 1))) :
            healthFactor \in { Decimal(h, 100) },
            progressFactor \in { DividedBy(OverallProgressDouble(cropId, week), 100) } } : TRUE

\* yieldPercentage: the exact product is h * week / totalDuration (the week
\* capped at totalDuration); off a tie k + 1/2 it lies at least
\* 1 / (2 * totalDuration) from one, far more than the error of the double, so
\* the nearest integer is the same; at a tie the double decides
YieldPercentage(cropId, h, week) ==
    LET total == CROP_DATA[cropId].totalDuration
        exact == h * Min(week, total)
    IN  IF (2 * exact) % (2 * total) = total
        THEN YieldPercentageDouble(cropId, h, week)
        ELSE MathRound(exact, total)

(***************************************************************************)
(* cropData.ts getYieldEstimate.                                           *)
(***************************************************************************)
getYieldEstimate(cropId, h, week) ==
    IF cropId \in InheritedIds THEN TypeError
    ELSE IF cropId \notin CropIds THEN [percentage |-> 0, estimate |-> "N/A"]
    ELSE LET stage == getCurrentStage(cropId, week)
             stageIndex == IF stage # NullStage THEN StageIndex(cropId, stage) ELSE 0 - 1
         IN  IF stageIndex < 2
             THEN [percentage |-> 0, estimate |-> "Too early to estimate"]
             ELSE [percentage |-> YieldPercentage(cropId, h, week),
                   estimate |-> CROP_DATA[cropId].yieldPerHectare]

(***************************************************************************)
(* Ripeness catalog: part_001 (ripenessData.ts) CROP_RIPENESS_DATA.        *)
(* daysFromStart and maxRipeningDays are whole days.                       *)
(***************************************************************************)
RStage(n, d, p) == [name |-> n, daysFromStart |-> d, percentage |-> p]

TOMATO_RIPENESS ==
    [cropId |-> "tomato", fruitStartWeek |-> 11, maxRipeningDays |-> 7,
     optimalTempRange |-> Range(20000, 25000),
     optimalHarvestStage |-> "Red Ripe",
     stages |-> << RStage("Green", 0, 0), RStage("Breaker", 2, 17),
                   RStage("Turning", 3, 33), RStage("Pink", 4, 50),
                   RStage("Light Red", 5, 75), RStage("Red Ripe", 7, 100) >>]

CHILI_RIPENESS ==
    [cropId |-> "chili", fruitStartWeek |-> 14, maxRipeningDays |-> 10,
     optimalTempRange |-> Range(22000, 28000),
     optimalHarvestStage |-> "Red",
     stages |-> << RStage("Green (Immature)", 0, 0), RStage("Green (Mature)", 3, 25),
                   RStage("Breaking", 5, 40), RStage("Orange", 7, 65),
                   RStage("Red-Orange", 9, 85), RStage("Red", 10, 100) >>]

BRINJAL_RIPENESS ==
    [cropId |-> "brinjal", fruitStartWeek |-> 12, maxRipeningDays |-> 8,
     optimalTempRange |-> Range(24000, 30000),
     optimalHarvestStage |-> "Deep Purple",
     stages |-> << RStage("Light Green", 0, 0), RStage("Light Purple", 2, 20),
                   RStage("Medium Purple", 4, 45), RStage("Dark Purple", 6, 70),
                   RStage("Deep Purple", 7, 90), RStage("Overripe", 8, 100) >>]

\* the chili profile with its fifth threshold repeating the fourth (7 days)
CROP_RIPENESS_DATA_RepeatedThreshold ==
    [tomato |-> TOMATO_RIPENESS,
     chili |-> [CHILI_RIPENESS EXCEPT !.stages[5].daysFromStart = 7],
     brinjal |-> BRINJAL_RIPENESS]

CROP_RIPENESS_DATA ==
    [tomato |-> TOMATO_RIPENESS, chili |-> CHILI_RIPENESS, brinjal |-> BRINJAL_RIPENESS]

RipeCropIds == DOMAIN CROP_RIPENESS_DATA

(***************************************************************************)
(* part_001 calculateRipeningSpeed, in 1/40000: 0.3 is 12000, 1.0 is       *)
(* 40000, 1.2 is 48000, 0.8 is 32000, and ((T - (min-8))/8) * 0.2 is the   *)
(* difference T - (min-8) counted in thousandths of a degree.              *)
(***************************************************************************)
\* the ramp made to end at 1.0: ((T - (min-8))/8) * 0.7
calculateRipeningSpeed_RampToOne(cropId, temperature) ==
    IF cropId \in InheritedIds THEN TypeError
    ELSE IF cropId \notin RipeCropIds THEN 40000
    ELSE LET min == CROP_RIPENESS_DATA[cropId].optimalTempRange.min
             max == CROP_RIPENESS_DATA[cropId].optimalTempRange.max
         IN  IF temperature < min - U(8) THEN 0
             ELSE IF temperature < min
                  THEN 12000 + ((temperature - (min - U(8))) * 7) \div 2
             ELSE IF temperature >= min /\ temperature <= max THEN 40000
             ELSE IF temperature > max /\ temperature <= max + U(5) THEN 48000
             ELSE IF temperature > max + U(5) THEN 32000
             ELSE 40000

\* the 1.2 band closed one comparison early: temperature < max + 5
calculateRipeningSpeed_HotExclusive(cropId, temperature) ==
    IF cropId \in InheritedIds THEN TypeError
    ELSE IF cropId \notin RipeCropIds THEN 40000
    ELSE LET min == CROP_RIPENESS_DATA[cropId].optimalTempRange.min
             max == CROP_RIPENESS_DATA[cropId].optimalTempRange.max
         IN  IF temperature < min - U(8) THEN 0
             ELSE IF temperature < min
                  THEN 12000 + (temperature - (min - U(8)))
             ELSE IF temperature >= min /\ temperature <= max THEN 40000
             ELSE IF temperature > max /\ temperature < max + U(5) THEN 48000
             ELSE 32000

calculateRipeningSpeed(cropId, temperature) ==
    IF cropId \in InheritedIds THEN TypeError
    ELSE IF cropId \notin RipeCropIds THEN 40000
    ELSE LET min == CROP_RIPENESS_DATA[cropId].optimalTempRange.min
             max == CROP_RIPENESS_DATA[cropId].optimalTempRange.max
         IN  IF temperature < min - U(8) THEN 0
             ELSE IF temperature < min
                  THEN 12000 + (temperature - (min - U(8)))
             ELSE IF temperature >= min /\ temperature <= max THEN 40000
             ELSE IF temperature > max /\ temperature <= max + U(5) THEN 48000
             ELSE IF temperature > max + U(5) THEN 32000
             ELSE 40000

(***************************************************************************)
(* part_001 getCurrentRipenessStage.  adjustedDays = days * speed is       *)
(* compared with daysFromStart in the common unit 1/400000 of a day        *)
(* (days are tenths, the speed is 1/40000).                                *)
(***************************************************************************)
\* the scan comparing strictly: adjustedDays > daysFromStart
getCurrentRipenessStage_Strict(cropId, days, speed) ==
    IF cropId \in InheritedIds THEN TypeError
    ELSE IF cropId \notin RipeCropIds THEN TOMATO_RIPENESS.stages[1]
    ELSE LET stages == CROP_RIPENESS_DATA[cropId].stages
             adjustedDays == days * speed
             reached == {i \in DOMAIN stages :
                            adjustedDays > stages[i].daysFromStart * 400000}
         IN  IF reached = {} THEN stages[1]
             ELSE stages[CHOOSE i \in reached : \A j \in reached : i >= j]

\* the scan started one stage short: i = stages.length - 2
getCurrentRipenessStage_SkipLast(cropId, days, speed) ==
    IF cropId \in InheritedIds THEN TypeError
    ELSE IF cropId \notin RipeCropIds THEN TOMATO_RIPENESS.stages[1]
    ELSE LET stages == CROP_RIPENESS_DATA[cropId].stages
             adjustedDays == days * speed
             reached == {i \in DOMAIN stages :
                            /\ i < Len(stages)
                            /\ adjustedDays >= stages[i].daysFromStart * 400000}
         IN  IF reached = {} THEN stages[1]
             ELSE stages[CHOOSE i \in reached : \A j \in reached : i >= j]

getCurrentRipenessStage(cropId, days, speed) ==
    IF cropId \in InheritedIds THEN TypeError
    ELSE IF cropId \notin RipeCropIds THEN TOMATO_RIPENESS.stages[1]
    ELSE LET stages == CROP_RIPENESS_DATA[cropId].stages
             adjustedDays == days * speed
             reached == {i \in DOMAIN stages :
                            adjustedDays >= stages[i].daysFromStart * 400000}
         IN  IF reached = {} THEN stages[1]
             ELSE stages[CHOOSE i \in reached : \A j \in reached : i >= j]

(***************************************************************************)
(* part_001 getRipenessPercentage: Math.min(100, adjustedDays /            *)
(* maxRipeningDays * 100), returned as the fraction num/den; adjustedDays  *)
(* = days * speed is in 1/400000 of a day, so den is 4000 * maxRipeningDays. *)
(***************************************************************************)
\* the percentage without its Math.min(100, ..)
getRipenessPercentage_NoCap(cropId, days, speed) ==
    IF cropId \in InheritedIds THEN NaN
    ELSE IF cropId \notin RipeCropIds THEN [num |-> 0, den |-> 1]
    ELSE LET den == 4000 * CROP_RIPENESS_DATA[cropId].maxRipeningDays
         IN  [num |-> days * speed, den |-> den]

getRipenessPercentage(cropId, days, speed) ==
    IF cropId \in InheritedIds THEN NaN
    ELSE IF cropId \notin RipeCropIds THEN [num |-> 0, den |-> 1]
    ELSE LET den == 4000 * CROP_RIPENESS_DATA[cropId].maxRipeningDays
         IN  [num |-> Min(100 * den, days * speed), den |-> den]

(***************************************************************************)
(* Dashboard.tsx:46-56: the readings the dashboard is constructed with.    *)
(***************************************************************************)
InitialReadings ==
    [moisture |-> 45000, temperature |-> 28000, humidity |-> 65000,
     soilPh |-> 6500, lightIntensity |-> 70000, airPressure |-> 915000,
     solarRadiation |-> 149000, windSpeed |-> 1100, windDirection |-> 35000,
     totalRainfall |-> 23400, todayRainfall |-> 0]

NoOp == [kind |-> "none", factor |-> "none", value |-> 0]

\* PlantGrowthResults.tsx:47-48: no snapshot kept, the simulation not running
TrackingIdle ==
    /\ isTracking = FALSE
    /\ snapshots = << >>

\* the analysis of a field photo: what the edge function answers with
Analysis(score, f, r) == [healthScore |-> score, findings |-> f, recommendations |-> r]

NoAnalysis == Analysis(0 - 1, << >>, << >>)

NoImage ==
    [kind |-> "missing", mediaType |-> "", base64 |-> FALSE, length |-> 0, segment |-> 0]

NoRequest == [method |-> "none", body |-> "none", parseError |-> "", image |-> NoImage]

NoResponse == [status |-> 0, error |-> "", analysis |-> NoAnalysis]

NoReply ==
    [status |-> 0, ok |-> FALSE, body |-> "none", content |-> "none", analysis |-> NoAnalysis]

\* the requests the edge function is followed through, overlapping or not
MaxRequests == 2

RequestIds == 1..MaxRequests

\* the edge function before any request reaches it
EdgeIdle ==
    /\ deployment = [source |-> "part_000", apiKey |-> TRUE]
    /\ request = [id \in RequestIds |-> NoRequest]
    /\ edgePc = [id \in RequestIds |-> "idle"]
    /\ upstreamCalls = [id \in RequestIds |-> 0]
    /\ gatewayReply = [id \in RequestIds |-> NoReply]
    /\ response = [id \in RequestIds |-> NoResponse]

(***************************************************************************)
(* Health scorer on its own: the crop and the five readings it is given    *)
(* are drawn from the bounds and the midpoint of each range it compares    *)
(* against, the dashboard's initial reading, and a value far out on each   *)
(* side (FarOut whole units, written in thousandths).                      *)
(***************************************************************************)
FarOut == 1000

Mid(r) == (r.min + r.max) \div 2

\* the catalog entry whose ranges supply the inputs; an unknown id has none
InputCrop(cropId) == IF cropId \in CropIds THEN CROP_DATA[cropId] ELSE CROP_DATA["tomato"]

AlongRange(r, initial) == {r.min, Mid(r), r.max, initial, -U(FarOut), U(FarOut)}

HealthInputs(cropId) ==
    LET crop == InputCrop(cropId)
    IN  [moisture : AlongRange(crop.optimalMoisture, InitialReadings.moisture),
         temperature : AlongRange(crop.optimalTemperature, InitialReadings.temperature),
         soilPh : AlongRange(crop.optimalPh, InitialReadings.soilPh),
         humidity : AlongRange(crop.optimalHumidity, InitialReadings.humidity),
         lightIntensity : {LightFloor, InitialReadings.lightIntensity, -U(FarOut), U(FarOut)}]

WithInputs(in) ==
    [InitialReadings EXCEPT !.moisture = in.moisture, !.temperature = in.temperature,
                            !.soilPh = in.soilPh, !.humidity = in.humidity,
                            !.lightIntensity = in.lightIntensity]

InitHealth ==
    /\ selectedCrop \in AnyCrop
    /\ \E in \in HealthInputs(selectedCrop) : readings = WithInputs(in)
    /\ currentWeek \in {1, 9}
    /\ health = 0
    /\ daysIntoRipening = 0
    /\ effectPending = FALSE
    /\ lastOp = NoOp
    /\ prevOp = NoOp
    /\ prevReadings = readings
    /\ steps = 0
    /\ TrackingIdle
    /\ EdgeIdle
    /\ call = "none"
    /\ out = 0

\* Dashboard.tsx:262, PlantGrowthResults.tsx:192: the scorer applied to the readings
ScoreHealth ==
    /\ call = "none"
    /\ call' = "calculatePlantHealth"
    /\ out' = calculatePlantHealth(selectedCrop, readings.moisture, readings.temperature,
                                   readings.soilPh, readings.humidity,
                                   readings.lightIntensity)
    /\ UNCHANGED inputVars

NextHealth == ScoreHealth

SpecHealth == InitHealth /\ [][NextHealth]_vars

Scored == call = "calculatePlantHealth"

\* the crop handed to the engine is in the catalog
Known == selectedCrop \in CropIds

\* the call made for an id that names an inherited member has thrown
Thrown == selectedCrop \in InheritedIds /\ call # "none" /\ out = TypeError

\* C1 as claimed: for every crop id, known or not, and every reading, however
\* far outside sane bounds, the health scorer does not fail and returns a
\* number between 0 and 100.
C1_HealthInRange == Scored => (~Thrown /\ out \in 0..100)

InRange(x, r) == r.min <= x /\ x <= r.max

\* the spec's example: tomato in its Flowering Stage (week 9) under the readings
\* moisture 45, temperature 28, humidity 65, pH 6.5, light 70
TomatoExample ==
    /\ Scored
    /\ selectedCrop = "tomato"
    /\ currentWeek = 9
    /\ getCurrentStage(selectedCrop, currentWeek).name = "Flowering Stage"
    /\ readings = InitialReadings

\* C2 as claimed: temperature is measured against the range of the current
\* stage (21-27 at week 9), so the example's temperature penalty is
\* (28-27) x 2.5 = 2.5 and the health is 97.5, 98 when rounded.
C2_StageRanges ==
    TomatoExample =>
        /\ TemperaturePenalty(CROP_DATA[selectedCrop], readings.temperature) = 25000
        /\ out = 98

\* C2 as amended: the scorer measures moisture, temperature and pH against the
\* crop-level ranges whatever the stage: readings inside the crop-level ranges
\* (light at or above its floor) score 100, and the example has temperature
\* penalty 0 (28 is inside 21-29), moisture penalty (60-45) x 0.8 = 12 and
\* health 88.
C2_CropRanges ==
    /\ TomatoExample =>
          /\ TemperaturePenalty(CROP_DATA[selectedCrop], readings.temperature) = 0
          /\ MoisturePenalty(CROP_DATA[selectedCrop], readings.moisture) = 120000
          /\ out = 88
    /\ (/\ Scored
        /\ selectedCrop \in CropIds
        /\ InRange(readings.moisture, CROP_DATA[selectedCrop].optimalMoisture)
        /\ InRange(readings.temperature, CROP_DATA[selectedCrop].optimalTemperature)
        /\ InRange(readings.soilPh, CROP_DATA[selectedCrop].optimalPh)
        /\ InRange(readings.humidity, CROP_DATA[selectedCrop].optimalHumidity)
        /\ readings.lightIntensity >= LightFloor) => out = 100

C2_Witness == TomatoExample /\ out = 88

OnBoundOrMid(x, r) == x \in {r.min, r.max, Mid(r)}

\* C10: a factor exactly on a bound or at the midpoint of the range the scorer
\* compares it against adds no penalty, nor does light exactly at its floor;
\* with all five factors so placed the health is exactly 100.
C10_BoundaryNoPenalty ==
    (Scored /\ selectedCrop \in CropIds) =>
        LET crop == CROP_DATA[selectedCrop]
            m == OnBoundOrMid(readings.moisture, crop.optimalMoisture)
            t == OnBoundOrMid(readings.temperature, crop.optimalTemperature)
            p == OnBoundOrMid(readings.soilPh, crop.optimalPh)
            h == OnBoundOrMid(readings.humidity, crop.optimalHumidity)
            l == readings.lightIntensity = LightFloor
        IN  /\ m => MoisturePenalty(crop, readings.moisture) = 0
            /\ t => TemperaturePenalty(crop, readings.temperature) = 0
            /\ p => PhPenalty(crop, readings.soilPh) = 0
            /\ h => HumidityPenalty(crop, readings.humidity) = 0
            /\ l => LightPenalty(readings.lightIntensity) = 0
            /\ (m /\ t /\ p /\ h /\ l) => out = 100

\* every factor on a bound of its range, light on its floor, scored 100
C10_Witness ==
    /\ Scored
    /\ selectedCrop = "chili"
    /\ readings.moisture = CROP_DATA[selectedCrop].optimalMoisture.max
    /\ readings.temperature = CROP_DATA[selectedCrop].optimalTemperature.min
    /\ readings.soilPh = CROP_DATA[selectedCrop].optimalPh.max
    /\ readings.humidity = CROP_DATA[selectedCrop].optimalHumidity.min
    /\ readings.lightIntensity = LightFloor
    /\ out = 100

(***************************************************************************)
(* Health scorer under a growing deviation: one factor is placed at a      *)
(* distance (in thousandths; a tenth of it for pH) below the lower or      *)
(* above the upper bound of the range the scorer compares it against,      *)
(* light below its floor only; the other factors are at the midpoint of    *)
(* their range, at the dashboard's initial reading, or 4 over their range  *)
(* (pH half a unit over, light 5 under its floor).                         *)
(***************************************************************************)
MaxDeviation == 40

Deviations == {0, 500, 2000, 5000, 10000, 20000, U(MaxDeviation)}

Factors == {"moisture", "temperature", "soilPh", "humidity", "lightIntensity"}

\* the range each check of calculatePlantHealth compares its factor against;
\* light has a floor and nothing above it is penalized
FactorRange(cropId, factor) ==
    LET crop == InputCrop(cropId)
    IN  CASE factor = "moisture" -> crop.optimalMoisture
          [] factor = "temperature" -> crop.optimalTemperature
          [] factor = "soilPh" -> crop.optimalPh
          [] factor = "humidity" -> crop.optimalHumidity
          [] factor = "lightIntensity" -> Range(LightFloor, InitialReadings.lightIntensity)

Deviated(cropId, factor) ==
    LET r == FactorRange(cropId, factor)
    IN  CASE factor = "soilPh" ->
               {r.min - d \div 10 : d \in Deviations} \cup {r.max + d \div 10 : d \in Deviations}
          [] factor = "lightIntensity" -> {r.min - d : d \in Deviations}
          [] OTHER -> {r.min - d : d \in Deviations} \cup {r.max + d : d \in Deviations}

Held(cropId, factor) ==
    LET r == FactorRange(cropId, factor)
    IN  CASE factor = "soilPh" -> {Mid(r), InitialReadings[factor], r.max + 500}
          [] factor = "lightIntensity" -> {InitialReadings[factor], r.min - 5000}
          [] OTHER -> {Mid(r), InitialReadings[factor], r.max + 4000}

InitDeviation ==
    /\ selectedCrop \in AnyCrop
    /\ \E varied \in Factors :
          \E v \in Deviated(selectedCrop, varied) :
              \E held \in [moisture : Held(selectedCrop, "moisture"),
                            temperature : Held(selectedCrop, "temperature"),
                            soilPh : Held(selectedCrop, "soilPh"),
                            humidity : Held(selectedCrop, "humidity"),
                            lightIntensity : Held(selectedCrop, "lightIntensity")] :
                  readings = WithInputs([held EXCEPT ![varied] = v])
    /\ currentWeek = 1
    /\ health = 0
    /\ daysIntoRipening = 0
    /\ effectPending = FALSE
    /\ lastOp = NoOp
    /\ prevOp = NoOp
    /\ prevReadings = readings
    /\ steps = 0
    /\ TrackingIdle
    /\ EdgeIdle
    /\ call = "none"
    /\ out = 0

SpecDeviation == InitDeviation /\ [][NextHealth]_vars

\* how far x lies outside r: negative below r.min, positive above r.max
Outside(x, r) == IF x < r.min THEN x - r.min ELSE IF x > r.max THEN x - r.max ELSE 0

\* x lies at least as far outside r as y does, on the same side
AtLeastAsFarOut(x, y, r) ==
    \/ Outside(y, r) >= 0 /\ Outside(x, r) >= Outside(y, r)
    \/ Outside(y, r) <= 0 /\ Outside(x, r) <= Outside(y, r)

HealthOf(cropId, r) ==
    calculatePlantHealth(cropId, r.moisture, r.temperature, r.soilPh, r.humidity,
                         r.lightIntensity)

\* C11: for every crop, take the scored reading vector and any vector that
\* differs from it in one factor only; if that factor lies at least as far
\* outside its optimal range, on the same side, in the scored vector, then the
\* scored vector's health is at most the other's.
C11_MonotoneInDeviation ==
    (Scored /\ Known) =>
        \A f \in Factors : \A v \in Deviated(selectedCrop, f) :
            AtLeastAsFarOut(readings[f], v, FactorRange(selectedCrop, f)) =>
                out <= HealthOf(selectedCrop, [readings EXCEPT ![f] = v])

\* tomato scored 5 degrees over its range with moisture at the initial 45: the
\* health is strictly below that of the same readings 2 degrees over
C11_Witness ==
    /\ Scored
    /\ selectedCrop = "tomato"
    /\ readings.moisture = InitialReadings.moisture
    /\ readings.temperature = CROP_DATA[selectedCrop].optimalTemperature.max + 5000
    /\ out > 0
    /\ out < HealthOf(selectedCrop,
                [readings EXCEPT !.temperature =
                    CROP_DATA[selectedCrop].optimalTemperature.max + 2000])

(***************************************************************************)
(* Stage resolver, yield estimator, and the engine's answers for a crop id *)
(* the catalog does not hold.  The crop (unknown ids included), the week   *)
(* (past every crop's totalDuration), the health and the readings are      *)
(* drawn from bounded sets; each action applies one engine function.       *)
(***************************************************************************)
MaxWeek == 22

\* tomato's crop-level midpoints but for a temperature 20 degrees over its range
HotReadings ==
    WithInputs([moisture |-> 70000, temperature |-> 49000, soilPh |-> 6400,
                humidity |-> 60000, lightIntensity |-> 70000])

EngineReadings == {InitialReadings, HotReadings}

InitEngine ==
    /\ selectedCrop \in AnyCrop
    /\ currentWeek \in 1..MaxWeek
    /\ health \in 0..100
    /\ readings \in EngineReadings
    /\ daysIntoRipening = 0
    /\ effectPending = FALSE
    /\ lastOp = NoOp
    /\ prevOp = NoOp
    /\ prevReadings = readings
    /\ steps = 0
    /\ TrackingIdle
    /\ EdgeIdle
    /\ call = "none"
    /\ out = 0

\* Dashboard.tsx:66, CropTimeline.tsx:24: the stage of the displayed week
ResolveStage ==
    /\ call = "none"
    /\ call' = "getCurrentStage"
    /\ out' = getCurrentStage(selectedCrop, currentWeek)
    /\ UNCHANGED inputVars

\* cropData.ts getYieldEstimate applied to a health and a week
EstimateYield ==
    /\ call = "none"
    /\ call' = "getYieldEstimate"
    /\ out' = getYieldEstimate(selectedCrop, health, currentWeek)
    /\ UNCHANGED inputVars

\* YieldPrediction.tsx:189: the expected height at the displayed week
ExpectedHeight ==
    /\ call = "none"
    /\ call' = "getExpectedHeight"
    /\ out' = getExpectedHeight(selectedCrop, currentWeek)
    /\ UNCHANGED inputVars

\* Dashboard.tsx:58-60: the nutrient levels the dashboard hands to YieldPrediction
nitrogen == 65

phosphorus == 70

potassium == 60

\* YieldPrediction.tsx:63-128: the health less the fixed deductions, clamped
YieldScore(cropId, week, r) ==
    LET currentStage == getCurrentStage(cropId, week)
        staged == currentStage # NullStage
        stageIndex == IF staged THEN StageIndex(cropId, currentStage) ELSE 0
        forMoisture == IF ~staged THEN 0
                       ELSE IF r.moisture < currentStage.optimalMoisture.min THEN 10
                       ELSE IF r.moisture > currentStage.optimalMoisture.max THEN 8
                       ELSE 0
        forTemperature == IF ~staged THEN 0
                          ELSE IF r.temperature < currentStage.optimalTemp.min THEN 12
                          ELSE IF r.temperature > currentStage.optimalTemp.max THEN 12
                          ELSE 0
        forPh == IF ~staged THEN 0
                 ELSE IF r.soilPh < currentStage.optimalPh.min THEN 15
                 ELSE IF r.soilPh > currentStage.optimalPh.max THEN 15
                 ELSE 0
        forNitrogen == IF stageIndex <= 1 /\ nitrogen < 60 THEN 8 ELSE 0
        forPhosphorus == IF stageIndex >= 2 /\ stageIndex <= 3 /\ phosphorus < 55 THEN 8 ELSE 0
        forPotassium == IF stageIndex >= 3 /\ potassium < 55 THEN 8 ELSE 0
        forLight == IF r.lightIntensity < U(50) THEN 10 ELSE 0
    IN  CHOOSE score \in
            { Max(0, Min(100, plantHealth - forMoisture - forTemperature - forPh
                                - forNitrogen - forPhosphorus - forPotassium - forLight)) :
              plantHealth \in
                  { calculatePlantHealth(cropId, r.moisture, r.temperature, r.soilPh,
                                         r.humidity, r.lightIntensity) } } : TRUE

\* YieldPrediction.tsx:145-150
futureWeeks == <<2, 4, 8>>

\* YieldPrediction.tsx:151-166: one entry of the prediction timeline; the sets
\* hold the one value of futureWeek and of futureHealth.
\* soilQuality is Math.round(Math.max(40, (n + p + k) / 3 - weeksAhead * 0.8)),
\* kept in fifteenths
PredictionAhead(cropId, week, score, weeksAhead) ==
    CHOOSE entry \in
        { [weekNumber |-> futureWeek,
           stageName |-> IF getCurrentStage(cropId, futureWeek) = NullStage
                         THEN "Harvesting"
                         ELSE getCurrentStage(cropId, futureWeek).name,
           plantHeight |-> getExpectedHeight(cropId, futureWeek),
           plantHealth |-> futureHealth,
           soilQuality |-> MathRound(Max(40 * 15, 5 * (nitrogen + phosphorus + potassium)
                                                     - 12 * weeksAhead), 15),
           expectedYield |-> getYieldEstimate(cropId, futureHealth, futureWeek).percentage] :
          futureWeek \in {Min(week + weeksAhead, CROP_DATA[cropId].totalDuration)},
          futureHealth \in {Max(40, score - weeksAhead \div 2)} } : TRUE

\* YieldPrediction.tsx:59-170: the effect of YieldPrediction; it returns at
\* line 60 for an id the catalog object does not know, and for an id naming
\* an inherited member the scorer it calls first throws
PredictYield ==
    /\ call = "none"
    /\ selectedCrop \in CropIds \cup InheritedIds
    /\ call' = "calculatePredictions"
    /\ out' = IF selectedCrop \in InheritedIds THEN TypeError
               ELSE CHOOSE shown \in
                        { [yieldScore |-> score,
                           predictions |->
                               [i \in DOMAIN futureWeeks |->
                                   PredictionAhead(selectedCrop, currentWeek, score,
                                                   futureWeeks[i])]] :
                          score \in {YieldScore(selectedCrop, currentWeek, readings)} } : TRUE
    /\ UNCHANGED inputVars

NextEngine == ResolveStage \/ EstimateYield \/ PredictYield \/ ScoreHealth \/ ExpectedHeight

SpecEngine == InitEngine /\ [][NextEngine]_vars

\* C5 as claimed: past totalDuration the yield estimator takes the progress as
\* 100%, so it returns round(health/100 x 100) = health with the crop's
\* yield-per-area baseline as label.
C5_SaturatedYield ==
    (call = "getYieldEstimate" /\ Known
        /\ currentWeek > CROP_DATA[selectedCrop].totalDuration) =>
        out = [percentage |-> health,
               estimate |-> CROP_DATA[selectedCrop].yieldPerHectare]

\* C6 as claimed: what the engine returns for an unknown crop id differs from
\* everything it returns for a known crop (here: at any week up to MaxWeek,
\* under any of the readings); a call that throws counts as differing.
C6_UnknownDistinct ==
    (~Known /\ ~Thrown) =>
        /\ call = "getCurrentStage" =>
              \A k \in CropIds, w \in 1..MaxWeek : getCurrentStage(k, w) # out
        /\ call = "calculatePlantHealth" =>
              \A k \in CropIds, r \in EngineReadings :
                  calculatePlantHealth(k, r.moisture, r.temperature, r.soilPh,
                                       r.humidity, r.lightIntensity) # out

\* C6 as amended: an unknown crop id gets no answer of its own.  For an id
\* that names a member every object inherits ("constructor", "toString",
\* ...) the stage resolver and the health scorer throw a TypeError.  For any
\* other unknown id they return a fallback that a known crop gets too: the
\* stage resolver returns none, as for every known crop one week past its
\* totalDuration; the health scorer returns 50, which tomato scores under the
\* hot readings.
C6_UnknownFallback ==
    (~Known /\ call \in {"getCurrentStage", "calculatePlantHealth"}) =>
        IF selectedCrop \in InheritedIds
        THEN out = TypeError
        ELSE /\ call = "getCurrentStage" =>
                   /\ out = NullStage
                   /\ \A k \in CropIds :
                         getCurrentStage(k, CROP_DATA[k].totalDuration + 1) = out
             /\ call = "calculatePlantHealth" =>
                   /\ out = 50
                   /\ calculatePlantHealth("tomato", HotReadings.moisture,
                          HotReadings.temperature, HotReadings.soilPh,
                          HotReadings.humidity, HotReadings.lightIntensity) = out

\* the health scorer has answered for the unknown crop id the catalog lacks
C6_Witness ==
    /\ selectedCrop = UnknownCrop
    /\ call = "calculatePlantHealth"
    /\ out = 50

\* C8: in every crop of the catalog the stages are contiguous and ordered: the
\* first starts at week 1, each ends the week before the next starts, and the
\* last ends at totalDuration.
C8_StagesContiguous ==
    Known =>
        LET crop == CROP_DATA[selectedCrop]
            stages == crop.stages
        IN  /\ Len(stages) >= 1
            /\ stages[1].startWeek = 1
            /\ \A i \in DOMAIN stages : stages[i].startWeek <= stages[i].endWeek
            /\ \A i \in 1..(Len(stages) - 1) :
                  stages[i].endWeek + 1 = stages[i + 1].startWeek
            /\ stages[Len(stages)].endWeek = crop.totalDuration

\* the resolver has answered for the first week of a crop's third stage
C8_Witness ==
    /\ Known
    /\ call = "getCurrentStage"
    /\ currentWeek = CROP_DATA[selectedCrop].stages[2].endWeek + 1
    /\ out = CROP_DATA[selectedCrop].stages[3]

\* C9: for a known crop and a week w >= 1 the stage resolver returns the one
\* stage whose [startWeek, endWeek] holds w when w <= totalDuration (exactly one
\* does, and it is the stage the timeline labels active), and none when
\* w > totalDuration.
C9_StageOfWeek ==
    (call = "getCurrentStage" /\ Known) =>
        LET crop == CROP_DATA[selectedCrop]
            holding == {i \in DOMAIN crop.stages :
                           /\ crop.stages[i].startWeek <= currentWeek
                           /\ currentWeek <= crop.stages[i].endWeek}
        IN  IF currentWeek <= crop.totalDuration
            THEN /\ Cardinality(holding) = 1
                 /\ \A i \in holding : out = crop.stages[i]
                 /\ getStageStatus(out, currentWeek) = "active"
            ELSE /\ holding = {}
                 /\ out = NullStage

\* the resolver has answered for the first week of a stage
C9_Witness ==
    /\ call = "getCurrentStage"
    /\ selectedCrop = "brinjal"
    /\ currentWeek = 12
    /\ out.name = "Fruit Development"

\* the 0-based positions of the stages of the crop that hold the week
HoldingIndex ==
    {i - 1 : i \in {k \in DOMAIN CROP_DATA[selectedCrop].stages :
                       /\ CROP_DATA[selectedCrop].stages[k].startWeek <= currentWeek
                       /\ currentWeek <= CROP_DATA[selectedCrop].stages[k].endWeek}}

\* C19: for every crop, health and week whose stage has 0-based index below 2
\* the yield estimator returns percentage 0 labelled "Too early to estimate";
\* for a week whose stage has index >= 2 it returns the crop's yield-per-area
\* baseline as label and round((health/100) x (overallProgress/100) x 100) as
\* percentage: the integer nearest to health x week / totalDuration.
C19_YieldGate ==
    (call = "getYieldEstimate" /\ Known) =>
        \A index \in HoldingIndex :
            IF index < 2
            THEN out = [percentage |-> 0, estimate |-> "Too early to estimate"]
            ELSE LET total == CROP_DATA[selectedCrop].totalDuration
                     exact == health * currentWeek
                 IN  /\ out.estimate = CROP_DATA[selectedCrop].yieldPerHectare
                     /\ 2 * (out.percentage * total - exact) <= total
                     /\ 2 * (exact - out.percentage * total) <= total

\* tomato at health 80 in week 8, the first week of its third stage: 40%
C19_Witness ==
    /\ call = "getYieldEstimate"
    /\ selectedCrop = "tomato"
    /\ currentWeek = 8
    /\ HoldingIndex = {2}
    /\ health = 80
    /\ out = [percentage |-> 40, estimate |-> "25-40 tons"]

\* the stage of the crop at 0-based position index
StageAt(index) == CROP_DATA[selectedCrop].stages[index + 1]

\* stageWeeks x (hMin + (hMax - hMin) x stageProgress) for the stage at index
InterpolatedTimesWeeks(index) ==
    LET stage == StageAt(index)
    IN  stage.expectedHeight.min * (stage.endWeek - stage.startWeek + 1)
            + (stage.expectedHeight.max - stage.expectedHeight.min)
                  * (currentWeek - stage.startWeek + 1)

\* C20 as claimed: for a known crop and a week w within a stage the expected
\* height is exactly hMin + (hMax - hMin) x stageProgress, with stageProgress
\* = (w - startWeek + 1) / (endWeek - startWeek + 1); past totalDuration it is
\* the final stage's hMax.
C20_ExactInterpolation ==
    (call = "getExpectedHeight" /\ Known) =>
        IF HoldingIndex # {}
        THEN \A index \in HoldingIndex :
                out * (StageAt(index).endWeek - StageAt(index).startWeek + 1)
                    = InterpolatedTimesWeeks(index)
        ELSE out = CROP_DATA[selectedCrop].stages[
                       Len(CROP_DATA[selectedCrop].stages)].expectedHeight.max

\* C20 as amended: the expected height is that interpolated value rounded to
\* the nearest whole centimetre, a half rounding up: a whole number within
\* half a centimetre of it, within [hMin, hMax], and hMax at the stage's last
\* week; past totalDuration it is the final stage's hMax.
C20_RoundedInterpolation ==
    (call = "getExpectedHeight" /\ Known) =>
        IF HoldingIndex # {}
        THEN \A index \in HoldingIndex :
                LET stage == StageAt(index)
                    stageWeeks == stage.endWeek - stage.startWeek + 1
                IN  /\ out \in Int
                    /\ 2 * (out * stageWeeks - InterpolatedTimesWeeks(index)) <= stageWeeks
                    /\ 2 * (InterpolatedTimesWeeks(index) - out * stageWeeks) < stageWeeks
                    /\ stage.expectedHeight.min <= out
                    /\ out <= stage.expectedHeight.max
                    /\ currentWeek = stage.endWeek => out = stage.expectedHeight.max
        ELSE out = CROP_DATA[selectedCrop].stages[
                       Len(CROP_DATA[selectedCrop].stages)].expectedHeight.max

\* tomato in week 4, a quarter into its second stage (30-60 cm): 37.5 gives 38
C20_Witness ==
    /\ call = "getExpectedHeight"
    /\ selectedCrop = "tomato"
    /\ currentWeek = 4
    /\ HoldingIndex = {1}
    /\ 2 * InterpolatedTimesWeeks(1) = 75 * 4
    /\ out = 38

\* C21 as documented (Eq. 11): the height at week w of a stage is
\* hMin + (hMax - hMin) x (w - startWeek) / (endWeek - startWeek), to the
\* nearest centimetre, so in the first week of a stage it is that stage's hMin.
C21_DocumentedInterpolation ==
    (call = "getExpectedHeight" /\ Known) =>
        \A index \in HoldingIndex :
            LET stage == StageAt(index)
                span == stage.endWeek - stage.startWeek
                documented == stage.expectedHeight.min * span
                                  + (stage.expectedHeight.max - stage.expectedHeight.min)
                                        * (currentWeek - stage.startWeek)
            IN  /\ 2 * (out * span - documented) <= span
                /\ 2 * (documented - out * span) <= span
                /\ currentWeek = stage.startWeek => out = stage.expectedHeight.min

\* C28: for every crop the expected height is non-decreasing in the week:
\* for all weeks 1 <= w1 <= w2, weeks on either side of a stage boundary and
\* weeks past totalDuration included, expectedHeight(w1) <= expectedHeight(w2).
C28_HeightNonDecreasing ==
    (call = "getExpectedHeight" /\ Known) =>
        \A w1 \in 1..currentWeek : getExpectedHeight(selectedCrop, w1) <= out

\* chili in week 18, the first week of its harvesting stage (75-120 cm): 90 cm,
\* the height its fruit-development stage (60-90 cm) ended on in week 17
C28_Witness ==
    /\ call = "getExpectedHeight"
    /\ selectedCrop = "chili"
    /\ currentWeek = 18
    /\ HoldingIndex = {4}
    /\ getExpectedHeight(selectedCrop, currentWeek - 1) = 90
    /\ out = 90

(***************************************************************************)
(* Ripening model and the ripeness tracker that drives it (part_007       *)
(* CropRipeness).  The crop, the temperature (every half degree from 0 to  *)
(* MaxTemp, and one thousandth to either side of each region boundary) and *)
(* the ripening days (every half day up to MaxRipeDays, the end of the     *)
(* longest days slider) are drawn from bounded sets; the tracker's effect  *)
(* and its slider set the days, and each other action applies one function *)
(* of the model.  The tracker is handed its crop and its week as props, so *)
(* any week can come with any crop: the weeks are 1 and 10, which precede  *)
(* every fruitStartWeek as 2 to 9 do, and every week from there to         *)
(* MaxWeek, past every totalDuration.  Only crops with a                   *)
(* ripeness profile are handed to a mounted tracker: for any other id the  *)
(* render returns or throws before the effect is declared.                 *)
(***************************************************************************)
MaxTemp == 45

MaxRipeDays == 13

RegionEdges ==
    UNION { { r.min - U(8), r.min, r.max, r.max + U(5) } :
            r \in { CROP_RIPENESS_DATA[c].optimalTempRange : c \in RipeCropIds } }

RipeTemps ==
    { 500 * k : k \in 0..(2 * MaxTemp) }
        \cup { e + d : e \in RegionEdges, d \in {0 - 1, 1} }

\* and 40 days, far past every crop's maxRipeningDays
RipeDays == { 5 * k : k \in 0..(2 * MaxRipeDays) } \cup {400}

InitRipe ==
    /\ selectedCrop \in AnyCrop
    /\ \E t \in RipeTemps : readings = [InitialReadings EXCEPT !.temperature = t]
    /\ daysIntoRipening \in RipeDays
    /\ effectPending = FALSE
    /\ currentWeek = 1
    /\ health = 0
    /\ lastOp = NoOp
    /\ prevOp = NoOp
    /\ prevReadings = readings
    /\ steps = 0
    /\ TrackingIdle
    /\ EdgeIdle
    /\ call = "none"
    /\ out = 0

\* part_007:421-427: the days the tracker's effect sets when it is handed a
\* new week: Math.min(maxRipeningDays, weeksIntoFruitDev * 1.5) from
\* fruitStartWeek on, and the days as they were before it
calculatedDays(cropId, week, days) ==
    LET cropData == CROP_RIPENESS_DATA[cropId]
        weeksIntoFruitDev == week - cropData.fruitStartWeek
    IN  IF week >= cropData.fruitStartWeek
        THEN Min(10 * cropData.maxRipeningDays, weeksIntoFruitDev * 15)
        ELSE days

TrackerWeeks == {1} \cup 10..MaxWeek

\* what neither the tracker's handlers nor its props touch
cropUnchanged == <<readings, health, lastOp, prevOp, prevReadings, steps, call, out, trackingVars, edgeVars>>

\* what the tracker's own handlers leave alone
trackerUnchanged == <<selectedCrop, cropUnchanged>>

(***************************************************************************)
(* A render of the tracker and the effect of part_007:421-427 are separate *)
(* steps: React commits the render, with the new props and the days as     *)
(* they were, and runs the effect afterwards; in between the tracker shows *)
(* and reports (onRipenessChange) the new props with the old days, which   *)
(* is what the stage and percentage lookups are applied to there.  React   *)
(* runs a pending effect before it renders the component again, so a prop  *)
(* change finds none pending; a slider move made while one is pending is   *)
(* overwritten by it (the slider is rendered from fruitStartWeek on, where *)
(* the effect sets the days whatever they were) and adds no outcome.       *)
(***************************************************************************)
\* part_007:389-419: the tracker is mounted with a crop and a week: the first
\* render is committed with the days of useState(0), its effect yet to run
Mounts ==
    /\ call = "none"
    /\ ~effectPending
    /\ \E cropId \in RipeCropIds, week \in TrackerWeeks :
          /\ selectedCrop' = cropId
          /\ currentWeek' = week
    /\ daysIntoRipening' = 0
    /\ effectPending' = TRUE
    /\ UNCHANGED cropUnchanged

\* part_007:389-419: the tracker is handed another week, the effect's first
\* dependency: the render with the new week and the days as they were is
\* committed
WeekChanges ==
    /\ call = "none"
    /\ ~effectPending
    /\ selectedCrop \in RipeCropIds
    /\ \E week \in TrackerWeeks :
          /\ week # currentWeek
          /\ currentWeek' = week
    /\ effectPending' = TRUE
    /\ UNCHANGED <<daysIntoRipening, trackerUnchanged>>

\* part_007:389-419: the tracker is handed another crop, and with it another
\* fruitStartWeek and maxRipeningDays (no two profiles share either), the
\* effect's other dependencies: the render with the new crop and the days as
\* they were is committed
CropChanges ==
    /\ call = "none"
    /\ ~effectPending
    /\ selectedCrop \in RipeCropIds
    /\ \E cropId \in RipeCropIds :
          /\ cropId # selectedCrop
          /\ selectedCrop' = cropId
    /\ effectPending' = TRUE
    /\ UNCHANGED <<currentWeek, daysIntoRipening, cropUnchanged>>

\* part_007:421-427: the effect, run once the render that changed one of its
\* dependencies is committed and before the tracker renders again
AutoCalculateDays ==
    /\ call = "none"
    /\ effectPending
    /\ daysIntoRipening' = calculatedDays(selectedCrop, currentWeek, daysIntoRipening)
    /\ effectPending' = FALSE
    /\ UNCHANGED <<currentWeek, trackerUnchanged>>

\* part_007:537-543: the days slider, rendered from fruitStartWeek on: 0 to
\* maxRipeningDays + 3 in steps of 0.5
DaysSlider ==
    /\ call = "none"
    /\ ~effectPending
    /\ selectedCrop \in RipeCropIds
    /\ currentWeek >= CROP_RIPENESS_DATA[selectedCrop].fruitStartWeek
    /\ \E k \in 0..(2 * (CROP_RIPENESS_DATA[selectedCrop].maxRipeningDays + 3)) :
          daysIntoRipening' = 5 * k
    /\ UNCHANGED <<currentWeek, effectPending, trackerUnchanged>>

\* part_007:406-407: the speed from the temperature, then the stage lookup
LookupRipenessStage ==
    /\ call = "none"
    /\ call' = "getCurrentRipenessStage"
    /\ out' = getCurrentRipenessStage(selectedCrop, daysIntoRipening,
                  calculateRipeningSpeed(selectedCrop, readings.temperature))
    /\ UNCHANGED inputVars

\* part_007:406: the ripening speed at the current temperature
RipeningSpeed ==
    /\ call = "none"
    /\ call' = "calculateRipeningSpeed"
    /\ out' = calculateRipeningSpeed(selectedCrop, readings.temperature)
    /\ UNCHANGED inputVars

\* part_007:408: the ripeness percentage at the current days and speed
RipenessPercentage ==
    /\ call = "none"
    /\ call' = "getRipenessPercentage"
    /\ out' = IF selectedCrop \in InheritedIds THEN TypeError
               ELSE getRipenessPercentage(selectedCrop, daysIntoRipening,
                        calculateRipeningSpeed(selectedCrop, readings.temperature))
    /\ UNCHANGED inputVars

NextRipe ==
    \/ Mounts
    \/ WeekChanges
    \/ CropChanges
    \/ AutoCalculateDays
    \/ DaysSlider
    \/ RipeningSpeed
    \/ LookupRipenessStage
    \/ RipenessPercentage

SpecRipe == InitRipe /\ [][NextRipe]_vars

RipeKnown == selectedCrop \in RipeCropIds

Tmin == CROP_RIPENESS_DATA[selectedCrop].optimalTempRange.min

\* C4 as claimed: S(T) is 0 below Tmin-8, 0.3 at Tmin-8, and rises linearly
\* from 0.3 at Tmin-8 to 1.0 at Tmin: S(T) = 0.3 + 0.7 x (T - (Tmin-8)) / 8 on
\* [Tmin-8, Tmin]  (speeds in 1/40000, temperatures in thousandths).
C4_RampToOne ==
    (call = "calculateRipeningSpeed" /\ RipeKnown) =>
        /\ readings.temperature < Tmin - U(8) => out = 0
        /\ readings.temperature = Tmin - U(8) => out = 12000
        /\ (Tmin - U(8) <= readings.temperature /\ readings.temperature <= Tmin) =>
              2 * out = 2 * 12000 + 7 * (readings.temperature - (Tmin - U(8)))

\* C4 as amended: S(T) is 0 below Tmin-8, 0.3 at Tmin-8, and rises linearly
\* from 0.3 at Tmin-8 towards 0.5 just below Tmin:
\* S(T) = 0.3 + 0.2 x (T - (Tmin-8)) / 8 for Tmin-8 <= T < Tmin, which stays
\* under 0.5; at T = Tmin it steps up to 1.0.
C4_RampToHalf ==
    (call = "calculateRipeningSpeed" /\ RipeKnown) =>
        /\ readings.temperature < Tmin - U(8) => out = 0
        /\ readings.temperature = Tmin - U(8) => out = 12000
        /\ (Tmin - U(8) <= readings.temperature /\ readings.temperature < Tmin) =>
              /\ 8 * out = 8 * 12000 + 8 * (readings.temperature - (Tmin - U(8)))
              /\ out < 20000
        /\ readings.temperature = Tmin => out = 40000

\* the speed has been computed half-way up the ramp: 0.4 at Tmin-4
C4_Witness ==
    /\ call = "calculateRipeningSpeed"
    /\ RipeKnown
    /\ readings.temperature = Tmin - U(4)
    /\ out = 16000

Tmax == CROP_RIPENESS_DATA[selectedCrop].optimalTempRange.max

\* C12: for every crop with ripening range [Tmin, Tmax], S(T) is 1.0 for every
\* T in [Tmin, Tmax], both ends included; 1.2 for Tmax < T <= Tmax+5; and 0.8
\* for T > Tmax+5.  For chili (22-28) S(33) = 1.2 and S(34) = 0.8.
C12_HotBands ==
    (call = "calculateRipeningSpeed" /\ RipeKnown) =>
        /\ (Tmin <= readings.temperature /\ readings.temperature <= Tmax) => out = 40000
        /\ (Tmax < readings.temperature /\ readings.temperature <= Tmax + U(5)) =>
              out = 48000
        /\ readings.temperature > Tmax + U(5) => out = 32000
        /\ (selectedCrop = "chili" /\ readings.temperature = U(33)) => out = 48000
        /\ (selectedCrop = "chili" /\ readings.temperature = U(34)) => out = 32000

\* the speed has been computed for chili at 33 degrees, the last of the 1.2 band
C12_Witness ==
    /\ call = "calculateRipeningSpeed"
    /\ selectedCrop = "chili"
    /\ readings.temperature = Tmax + U(5)
    /\ readings.temperature = U(33)
    /\ out = 48000

\* S(T) at the current temperature, in 1/40000
SpeedNow == calculateRipeningSpeed(selectedCrop, readings.temperature)

\* C13: at a fixed temperature the ripeness percentage is non-decreasing in the
\* elapsed ripening days, lies in [0, 100], and is exactly 100 whenever
\* elapsedDays x S(T) >= maxRipeningDays, as for brinjal (maxRipeningDays 8)
\* after 40 days at any speed above 1.
C13_PercentageSaturates ==
    (call = "getRipenessPercentage" /\ RipeKnown) =>
        /\ out.den > 0
        /\ 0 <= out.num /\ out.num <= 100 * out.den
        /\ \A d \in RipeDays :
              d <= daysIntoRipening =>
                  LET earlier == getRipenessPercentage(selectedCrop, d, SpeedNow)
                  IN  earlier.den = out.den /\ earlier.num <= out.num
        /\ daysIntoRipening * SpeedNow
                >= CROP_RIPENESS_DATA[selectedCrop].maxRipeningDays * 400000 =>
              out.num = 100 * out.den
        /\ (selectedCrop = "brinjal" /\ daysIntoRipening = 400 /\ SpeedNow > 40000) =>
              out.num = 100 * out.den

\* brinjal after 40 days in the 1.2 band: 48 adjusted days against 8
C13_Witness ==
    /\ call = "getRipenessPercentage"
    /\ selectedCrop = "brinjal"
    /\ daysIntoRipening = 400
    /\ SpeedNow = 48000
    /\ out = [num |-> 100 * 32000, den |-> 32000]

\* C14: for a known crop, days D >= 0 and speed S >= 0 the stage lookup
\* returns a stage of the crop whose daysFromStart is at most D x S, and no
\* stage of the crop with a threshold at most D x S has a larger one.
C14_HighestStageReached ==
    (call = "getCurrentRipenessStage" /\ RipeKnown) =>
        LET stages == CROP_RIPENESS_DATA[selectedCrop].stages
            adjustedDays == daysIntoRipening * SpeedNow
        IN  /\ \E i \in DOMAIN stages : stages[i] = out
            /\ out.daysFromStart * 400000 <= adjustedDays
            /\ \A i \in DOMAIN stages :
                  stages[i].daysFromStart * 400000 <= adjustedDays =>
                      stages[i].daysFromStart <= out.daysFromStart

\* chili after 7.5 days at speed 0.4: exactly the 3 adjusted days of its
\* second stage
C14_Witness ==
    /\ call = "getCurrentRipenessStage"
    /\ selectedCrop = "chili"
    /\ daysIntoRipening = 75
    /\ SpeedNow = 16000
    /\ out.name = "Green (Mature)"

\* the last stage of the ripeness profile of the selected crop
LastRipenessStage ==
    CROP_RIPENESS_DATA[selectedCrop].stages[Len(CROP_RIPENESS_DATA[selectedCrop].stages)]

\* C26: for every crop's ripeness profile the stages' daysFromStart
\* thresholds are strictly increasing and their ripeness percentages are
\* non-decreasing, start at 0 in the first stage and reach 100 in the last.
C26_ProfileOrdered ==
    RipeKnown =>
        LET stages == CROP_RIPENESS_DATA[selectedCrop].stages
        IN  /\ \A i \in DOMAIN stages : \A j \in DOMAIN stages :
                  i < j => /\ stages[i].daysFromStart < stages[j].daysFromStart
                           /\ stages[i].percentage <= stages[j].percentage
            /\ stages[1].percentage = 0
            /\ LastRipenessStage.percentage = 100

\* the lookup has walked the chili profile up to its fifth stage, 9 days in
C26_Witness ==
    /\ call = "getCurrentRipenessStage"
    /\ selectedCrop = "chili"
    /\ daysIntoRipening = 90
    /\ SpeedNow = 40000
    /\ out = CHILI_RIPENESS.stages[5]
    /\ out.daysFromStart = 9

\* C30: for every known crop, elapsed days D >= 0 and temperature T the stage
\* lookup returns the last stage of the crop's profile if and only if the
\* ripeness percentage computed for the same D and T is 100.
C30_LastStageIffFull ==
    RipeKnown =>
        LET percentage == getRipenessPercentage(selectedCrop, daysIntoRipening, SpeedNow)
            stage == getCurrentRipenessStage(selectedCrop, daysIntoRipening, SpeedNow)
        IN  /\ call = "getCurrentRipenessStage" =>
                  (out = LastRipenessStage <=> percentage.num = 100 * percentage.den)
            /\ call = "getRipenessPercentage" =>
                  (out.num = 100 * out.den <=> stage = LastRipenessStage)

\* tomato after exactly 7 days at speed 1.0: the lookup is at "Red Ripe", the
\* last stage, and the percentage for the same inputs is 100
C30_Witness ==
    /\ call = "getCurrentRipenessStage"
    /\ selectedCrop = "tomato"
    /\ daysIntoRipening = 70
    /\ SpeedNow = 40000
    /\ out.name = "Red Ripe"
    /\ getRipenessPercentage(selectedCrop, daysIntoRipening, SpeedNow) = [num |-> 2800000, den |-> 28000]

(***************************************************************************)
(* DiseaseDetection.tsx.  CROP_DISEASES: each disease with the condition   *)
(* keys it declares `true`, in the order of its object literal.            *)
(***************************************************************************)
Disease(n, c) == [name |-> n, conditions |-> c]

CROP_DISEASES ==
    [tomato |-> << Disease("Early Blight (Alternaria)", <<"highHumidity", "highTemp">>),
                   Disease("Late Blight (Phytophthora)",
                           <<"highMoisture", "highHumidity", "lowTemp">>),
                   Disease("Fusarium Wilt", <<"highTemp", "wrongPh">>),
                   Disease("Blossom End Rot", <<"lowMoisture", "wrongPh">>) >>,
     chili |-> << Disease("Anthracnose", <<"highMoisture", "highHumidity">>),
                  Disease("Bacterial Leaf Spot", <<"highHumidity", "highTemp">>),
                  Disease("Powdery Mildew", <<"lowMoisture", "highTemp", "lowLight">>),
                  Disease("Root Rot (Phytophthora)", <<"highMoisture", "wrongPh">>) >>,
     brinjal |-> << Disease("Verticillium Wilt", <<"highTemp", "wrongPh">>),
                    Disease("Phomopsis Blight", <<"highHumidity", "highMoisture">>),
                    Disease("Bacterial Wilt", <<"highTemp", "highMoisture">>),
                    Disease("Cercospora Leaf Spot", <<"highHumidity", "lowLight">>) >>]

\* DiseaseDetection.tsx:119  `CROP_DISEASES[selectedCrop] || []`; for an id that
\* names a member of Object.prototype the lookup yields that member, which is
\* truthy
diseases(cropId) ==
    IF cropId \in DOMAIN CROP_DISEASES THEN CROP_DISEASES[cropId]
    ELSE IF cropId \in InheritedIds THEN [inherited |-> cropId]
    ELSE << >>

\* DiseaseDetection.tsx:121-132  `labels[key] || key`: the label of a key of
\* the literal, the inherited member for a key that names one, the key itself
\* for any other
getConditionLabel(key) ==
    CASE key \in InheritedIds -> [inherited |-> key]
      [] key = "highMoisture" -> "High soil moisture"
      [] key = "lowMoisture" -> "Low soil moisture"
      [] key = "highTemp" -> "High temperature"
      [] key = "lowTemp" -> "Low temperature"
      [] key = "highHumidity" -> "High humidity"
      [] key = "wrongPh" -> "Suboptimal pH"
      [] key = "lowLight" -> "Low light intensity"
      [] OTHER -> key

\* DiseaseDetection.tsx:138-146: the flags, from the stage's ranges (the
\* crop's for humidity) widened by 10, 3, 10, 0.5, and a light floor of 40
conditions(crop, currentStage, r) ==
    [highMoisture |-> r.moisture > currentStage.optimalMoisture.max + U(10),
     lowMoisture |-> r.moisture < currentStage.optimalMoisture.min - U(10),
     highTemp |-> r.temperature > currentStage.optimalTemp.max + U(3),
     lowTemp |-> r.temperature < currentStage.optimalTemp.min - U(3),
     highHumidity |-> r.humidity > crop.optimalHumidity.max + U(10),
     wrongPh |-> \/ r.soilPh < currentStage.optimalPh.min - 500
                 \/ r.soilPh > currentStage.optimalPh.max + 500,
     lowLight |-> r.lightIntensity < U(40)]

\* the score taken over the seven keys of the vocabulary, not the declared ones
riskScore_OverVocabulary(matchCount, totalConditions) ==
    IF totalConditions > 0 THEN [num |-> matchCount * 100, den |-> 7]
    ELSE [num |-> 0, den |-> 1]

\* DiseaseDetection.tsx:163: (matchCount / totalConditions) * 100 as the
\* fraction num/den, 0 when nothing is declared
riskScore(matchCount, totalConditions) ==
    IF totalConditions > 0 THEN [num |-> matchCount * 100, den |-> totalConditions]
    ELSE [num |-> 0, den |-> 1]

\* the bands compared strictly: > 75, > 50, > 25
riskLevel_Exclusive(score) ==
    IF score.num > 75 * score.den THEN "critical"
    ELSE IF score.num > 50 * score.den THEN "high"
    ELSE IF score.num > 25 * score.den THEN "medium"
    ELSE "low"

\* DiseaseDetection.tsx:165-168
riskLevel(score) ==
    IF score.num >= 75 * score.den THEN "critical"
    ELSE IF score.num >= 50 * score.den THEN "high"
    ELSE IF score.num >= 25 * score.den THEN "medium"
    ELSE "low"

\* DiseaseDetection.tsx:148-177: the callback of diseases.map
Assess(disease, flags) ==
    LET matched == SelectSeq(disease.conditions, LAMBDA key : flags[key])
        score == riskScore(Len(matched), Len(disease.conditions))
    IN  [name |-> disease.name,
         riskLevel |-> riskLevel(score),
         riskScore |-> score,
         triggers |-> [i \in 1..Len(matched) |-> getConditionLabel(matched[i])]]

\* b.riskScore - a.riskScore < 0: a sorts before b
ScoreAbove(a, b) == a.riskScore.num * b.riskScore.den > b.riskScore.num * a.riskScore.den

ScoreEqual(a, b) == a.riskScore.num * b.riskScore.den = b.riskScore.num * a.riskScore.den

\* DiseaseDetection.tsx:178: Array.prototype.sort by descending riskScore; the
\* sort is stable, so equal scores keep their order
SortByRisk(list) ==
    LET Before(j, i) == \/ ScoreAbove(list[j], list[i])
                        \/ ScoreEqual(list[j], list[i]) /\ j < i
        Place(i) == Cardinality({j \in DOMAIN list : Before(j, i)}) + 1
    IN  [k \in DOMAIN list |-> list[CHOOSE i \in DOMAIN list : Place(i) = k]]

\* DiseaseDetection.tsx:134-179
detectedDiseases(cropId, week, r) ==
    LET currentStage == getCurrentStage(cropId, week)
    IN  IF cropId \in InheritedIds THEN TypeError
        ELSE IF currentStage = NullStage \/ cropId \notin CropIds THEN << >>
        ELSE LET flags == conditions(CROP_DATA[cropId], currentStage, r)
                 list == diseases(cropId)
             IN  SortByRisk([i \in DOMAIN list |-> Assess(list[i], flags)])

CountLevel(detected, level) ==
    Cardinality({i \in DOMAIN detected : detected[i].riskLevel = level})

\* "Low Risk" given to any number of high assessments
overallHealth_AnyHigh(detected) ==
    LET criticalCount == CountLevel(detected, "critical")
        highCount == CountLevel(detected, "high")
    IN  IF criticalCount > 0 THEN [status |-> "At Risk", score |-> 25]
        ELSE IF highCount >= 1 THEN [status |-> "Low Risk", score |-> 75]
        ELSE [status |-> "Healthy", score |-> 100]

\* DiseaseDetection.tsx:199-207
overallHealth(detected) ==
    LET criticalCount == CountLevel(detected, "critical")
        highCount == CountLevel(detected, "high")
    IN  IF criticalCount > 0 THEN [status |-> "At Risk", score |-> 25]
        ELSE IF highCount > 1 THEN [status |-> "Moderate Risk", score |-> 50]
        ELSE IF highCount = 1 THEN [status |-> "Low Risk", score |-> 75]
        ELSE [status |-> "Healthy", score |-> 100]

(***************************************************************************)
(* Disease risk engine on its own: the crop (an unknown id included), the  *)
(* week (past every crop's totalDuration) and the readings are drawn from  *)
(* bounded sets: each reading sits on the threshold of a flag or one       *)
(* thousandth beyond it, so every combination of flags occurs.             *)
(***************************************************************************)
DiseaseInputs(cropId, week) ==
    LET crop == InputCrop(cropId)
        found == getCurrentStage(cropId, week)
        stage == IF cropId \notin CropIds \/ found = NullStage THEN crop.stages[1] ELSE found
    IN  [moisture : {stage.optimalMoisture.min - U(10) - 1, stage.optimalMoisture.min - U(10),
                     stage.optimalMoisture.max + U(10), stage.optimalMoisture.max + U(10) + 1},
         temperature : {stage.optimalTemp.min - U(3) - 1, stage.optimalTemp.min - U(3),
                        stage.optimalTemp.max + U(3), stage.optimalTemp.max + U(3) + 1},
         soilPh : {stage.optimalPh.min - 500 - 1, stage.optimalPh.min - 500,
                   stage.optimalPh.max + 500, stage.optimalPh.max + 500 + 1},
         humidity : {crop.optimalHumidity.max + U(10), crop.optimalHumidity.max + U(10) + 1},
         lightIntensity : {U(40) - 1, U(40)}]

InitDisease ==
    /\ selectedCrop \in AnyCrop
    /\ currentWeek \in 1..MaxWeek
    /\ \E in \in DiseaseInputs(selectedCrop, currentWeek) : readings = WithInputs(in)
    /\ health = 0
    /\ daysIntoRipening = 0
    /\ effectPending = FALSE
    /\ lastOp = NoOp
    /\ prevOp = NoOp
    /\ prevReadings = readings
    /\ steps = 0
    /\ TrackingIdle
    /\ EdgeIdle
    /\ call = "none"
    /\ out = 0

\* DiseaseDetection.tsx:134: the ranked assessments for the displayed readings
AssessDiseases ==
    /\ call = "none"
    /\ call' = "detectedDiseases"
    /\ out' = detectedDiseases(selectedCrop, currentWeek, readings)
    /\ UNCHANGED inputVars

\* DiseaseDetection.tsx:199: the aggregate status of those assessments
AggregateHealth ==
    /\ call = "none"
    /\ call' = "overallHealth"
    /\ out' = IF selectedCrop \in InheritedIds THEN TypeError
               ELSE overallHealth(detectedDiseases(selectedCrop, currentWeek, readings))
    /\ UNCHANGED inputVars

NextDisease == AssessDiseases \/ AggregateHealth

SpecDisease == InitDisease /\ [][NextDisease]_vars

Assessed == call = "detectedDiseases"

\* the flags of the displayed stage and readings
FlagsNow ==
    conditions(CROP_DATA[selectedCrop], getCurrentStage(selectedCrop, currentWeek), readings)

\* the positions of the catalog entries of the crop that carry a name
CatalogAt(name) ==
    {j \in DOMAIN diseases(selectedCrop) : diseases(selectedCrop)[j].name = name}

\* C15: the risk score of every assessed disease is (number of its declared
\* conditions that are true now) / (number of its declared conditions) x 100,
\* hence 100 when all of them are true; every disease of the crop is assessed
\* at a week that has a stage; and the score of a disease declaring no
\* condition is 0.  (An id naming an inherited member of the catalog object
\* is no crop: the component throws before it assesses anything.)
C15_RiskScoreRatio ==
    /\ (Assessed /\ ~Thrown) =>
          /\ \A i \in DOMAIN out :
                /\ CatalogAt(out[i].name) # {}
                /\ \A j \in CatalogAt(out[i].name) :
                      LET declared == {diseases(selectedCrop)[j].conditions[k] :
                                         k \in DOMAIN diseases(selectedCrop)[j].conditions}
                          matched == {key \in declared : FlagsNow[key]}
                      IN  /\ out[i].riskScore.den > 0
                          /\ out[i].riskScore.num * Cardinality(declared)
                                = 100 * Cardinality(matched) * out[i].riskScore.den
                          /\ matched = declared =>
                                out[i].riskScore.num = 100 * out[i].riskScore.den
          /\ (Known /\ currentWeek <= CROP_DATA[selectedCrop].totalDuration) =>
                Len(out) = Len(diseases(selectedCrop))
    /\ riskScore(0, 0).num = 0

\* tomato assessed with Early Blight at 2 of 2 and Late Blight at 2 of 3
C15_Witness ==
    /\ Assessed
    /\ selectedCrop = "tomato"
    /\ Len(out) = 4
    /\ out[1].name = "Early Blight (Alternaria)"
    /\ out[1].riskScore = [num |-> 200, den |-> 2]
    /\ \E i \in DOMAIN out :
          /\ out[i].name = "Late Blight (Phytophthora)"
          /\ out[i].riskScore = [num |-> 200, den |-> 3]

\* C16: the risk level of every assessment follows from its score alone:
\* critical iff score >= 75, high iff 50 <= score < 75, medium iff
\* 25 <= score < 50, low iff score < 25.
C16_LevelFromScore ==
    (Assessed /\ ~Thrown) =>
        \A i \in DOMAIN out :
            LET n == out[i].riskScore.num
                d == out[i].riskScore.den
            IN  /\ out[i].riskLevel = "critical" <=> n >= 75 * d
                /\ out[i].riskLevel = "high" <=> (50 * d <= n /\ n < 75 * d)
                /\ out[i].riskLevel = "medium" <=> (25 * d <= n /\ n < 50 * d)
                /\ out[i].riskLevel = "low" <=> n < 25 * d

\* an assessment list holding all four levels, the high one exactly at 50
C16_Witness ==
    /\ Assessed
    /\ \E i \in DOMAIN out :
          out[i].riskLevel = "high" /\ out[i].riskScore.num = 50 * out[i].riskScore.den
    /\ \A level \in {"critical", "high", "medium", "low"} :
          \E i \in DOMAIN out : out[i].riskLevel = level

\* the list holds each disease of the crop's profile exactly once, by
\* non-increasing score, equal scores in catalog order
Ranked(list) ==
    /\ \A j \in DOMAIN diseases(selectedCrop) :
          Cardinality({i \in DOMAIN list :
                          list[i].name = diseases(selectedCrop)[j].name}) = 1
    /\ Len(list) = Len(diseases(selectedCrop))
    /\ \A i \in DOMAIN list : \A k \in DOMAIN list :
          i < k =>
              /\ ~ScoreAbove(list[k], list[i])
              /\ ScoreEqual(list[i], list[k]) =>
                    \A a \in CatalogAt(list[i].name) : \A b \in CatalogAt(list[k].name) :
                        a < b

\* C17: the assessment list of a crop holds each disease of its profile
\* exactly once, ordered by non-increasing score, ties in catalog order.
\* DiseaseDetection.tsx:135 returns the empty list for a crop at a week past
\* its totalDuration, where no stage is current.
C17_EveryDiseaseRanked == (Assessed /\ Known) => Ranked(out)

\* C18: the aggregate status follows from the numbers of critical and high
\* assessments alone: "At Risk" iff at least one is critical; otherwise
\* "Moderate Risk" iff more than one is high; otherwise "Low Risk" iff exactly
\* one is high; otherwise "Healthy".
C18_StatusFromCounts ==
    (call = "overallHealth" /\ ~Thrown) =>
        LET detected == detectedDiseases(selectedCrop, currentWeek, readings)
            critical == Cardinality({i \in DOMAIN detected :
                                        detected[i].riskLevel = "critical"})
            high == Cardinality({i \in DOMAIN detected : detected[i].riskLevel = "high"})
        IN  /\ out.status = "At Risk" <=> critical >= 1
            /\ out.status = "Moderate Risk" <=> (critical = 0 /\ high > 1)
            /\ out.status = "Low Risk" <=> (critical = 0 /\ high = 1)
            /\ out.status = "Healthy" <=> (critical = 0 /\ high = 0)

\* two high assessments and no critical one: "Moderate Risk"
C18_Witness ==
    /\ call = "overallHealth"
    /\ Known
    /\ CountLevel(detectedDiseases(selectedCrop, currentWeek, readings), "critical") = 0
    /\ CountLevel(detectedDiseases(selectedCrop, currentWeek, readings), "high") = 2
    /\ out.status = "Moderate Risk"

(***************************************************************************)
(* Dashboard.tsx applyEnvironmentalEffects.  `effect` is kept as the       *)
(* numerator newValue - normalization point; each delta folds the          *)
(* normalization scale and its own factor into one quotient, which is      *)
(* whole for every value a slider can send (steps of 1 or 0.1).            *)
(***************************************************************************)
\* Dashboard.tsx:84; the mutant leaves out the Math.min
clamp_LowerOnly(val, min, max) == Max(min, val)

clamp(val, min, max) == Max(min, Min(max, val))

\* the point each effect is normalized around (rainfall: none is subtracted)
NormalizationPoint(changedFactor) ==
    CASE changedFactor = "solarRadiation" -> 100000
      [] changedFactor = "temperature" -> 25000
      [] changedFactor = "todayRainfall" -> 0
      [] changedFactor = "windSpeed" -> 2000
      [] changedFactor = "humidity" -> 50000
      [] changedFactor = "airPressure" -> 915000
      [] changedFactor = "lightIntensity" -> 50000

\* the normalization point not subtracted
Effect_NotNormalized(changedFactor, newValue) == newValue

\* the subtraction turned round
Effect_Reversed(changedFactor, newValue) == NormalizationPoint(changedFactor) - newValue

Effect(changedFactor, newValue) == newValue - NormalizationPoint(changedFactor)

\* the humidity just changed by a temperature change propagated on to moisture
applyEnvironmentalEffects_Cascading(changedFactor, newValue, r) ==
    LET e == Effect(changedFactor, newValue)
    IN  CASE changedFactor = "solarRadiation" ->
               [r EXCEPT
                  !.temperature = clamp(@ + (e * 2) \div 100, 15000, 45000),
                  !.lightIntensity = clamp(@ + (e * 5) \div 100, 0, 100000),
                  !.humidity = clamp(@ - (e * 3) \div 100, 0, 100000),
                  !.moisture = clamp(@ - (e * 15) \div 1000, 0, 100000)]
          [] changedFactor = "temperature" ->
               [r EXCEPT
                  !.humidity = clamp(@ - (e * 4) \div 10, 0, 100000),
                  !.moisture = clamp(clamp(@ - (e * 2) \div 10, 0, 100000)
                                         + ((clamp(r.humidity - (e * 4) \div 10, 0, 100000)
                                                - 50000) * 2) \div 50,
                                     0, 100000),
                  !.airPressure = clamp(@ - (e * 2) \div 10, 850000, 1050000)]
          [] changedFactor = "todayRainfall" ->
               [r EXCEPT
                  !.moisture = clamp(@ + (e * 8) \div 10, 0, 100000),
                  !.humidity = clamp(@ + (e * 5) \div 10, 0, 100000),
                  !.temperature = clamp(@ - (e * 5) \div 100, 15000, 45000)]
          [] changedFactor = "windSpeed" ->
               [r EXCEPT
                  !.moisture = clamp(@ - (e * 3) \div 2, 0, 100000),
                  !.humidity = clamp(@ - (e * 4) \div 2, 0, 100000),
                  !.temperature = clamp(@ - (e * 15) \div 20, 15000, 45000)]
          [] changedFactor = "humidity" ->
               [r EXCEPT
                  !.moisture = clamp(@ + (e * 2) \div 50, 0, 100000)]
          [] changedFactor = "airPressure" ->
               [r EXCEPT
                  !.temperature = clamp(@ + (e * 5) \div 1000, 15000, 45000)]
          [] changedFactor = "lightIntensity" ->
               [r EXCEPT
                  !.temperature = clamp(@ + (e * 15) \div 500, 15000, 45000),
                  !.moisture = clamp(@ - e \div 50, 0, 100000)]
          [] OTHER -> r

applyEnvironmentalEffects(changedFactor, newValue, r) ==
    LET e == Effect(changedFactor, newValue)
    IN  CASE changedFactor = "solarRadiation" ->
               [r EXCEPT
                  !.temperature = clamp(@ + (e * 2) \div 100, 15000, 45000),
                  !.lightIntensity = clamp(@ + (e * 5) \div 100, 0, 100000),
                  !.humidity = clamp(@ - (e * 3) \div 100, 0, 100000),
                  !.moisture = clamp(@ - (e * 15) \div 1000, 0, 100000)]
          [] changedFactor = "temperature" ->
               [r EXCEPT
                  !.humidity = clamp(@ - (e * 4) \div 10, 0, 100000),
                  !.moisture = clamp(@ - (e * 2) \div 10, 0, 100000),
                  !.airPressure = clamp(@ - (e * 2) \div 10, 850000, 1050000)]
          [] changedFactor = "todayRainfall" ->
               [r EXCEPT
                  !.moisture = clamp(@ + (e * 8) \div 10, 0, 100000),
                  !.humidity = clamp(@ + (e * 5) \div 10, 0, 100000),
                  !.temperature = clamp(@ - (e * 5) \div 100, 15000, 45000)]
          [] changedFactor = "windSpeed" ->
               [r EXCEPT
                  !.moisture = clamp(@ - (e * 3) \div 2, 0, 100000),
                  !.humidity = clamp(@ - (e * 4) \div 2, 0, 100000),
                  !.temperature = clamp(@ - (e * 15) \div 20, 15000, 45000)]
          [] changedFactor = "humidity" ->
               [r EXCEPT
                  !.moisture = clamp(@ + (e * 2) \div 50, 0, 100000)]
          [] changedFactor = "airPressure" ->
               [r EXCEPT
                  !.temperature = clamp(@ + (e * 5) \div 1000, 15000, 45000)]
          [] changedFactor = "lightIntensity" ->
               [r EXCEPT
                  !.temperature = clamp(@ + (e * 15) \div 500, 15000, 45000),
                  !.moisture = clamp(@ - e \div 50, 0, 100000)]
          [] OTHER -> r

\* Number(x.toFixed(1)) for a double x >= 0, in thousandths: toFixed takes the
\* whole n for which n / 10 is nearest to the value the double holds, the
\* larger n of two equally near
ToFixed1(x) == 100 * MathRoundDouble([m |-> MulSmall(x.m, 10), e |-> x.e])

(***************************************************************************)
(* The dashboard: the sliders' onValueChange handlers, the climate timer    *)
(* and the setters of the crop and the week.  A slider sends a value       *)
(* inside its min..max on its step; the sets below hold each slider's two  *)
(* ends and the normalization point.                                       *)
(***************************************************************************)
MaxSteps == 3

SliderValues ==
    [moisture |-> {0, 100000},
     temperature |-> {15000, 25000, 45000},
     humidity |-> {0, 50000, 100000},
     soilPh |-> {4000, 9000},
     lightIntensity |-> {0, 50000, 100000},
     airPressure |-> {850000, 915000, 1050000},
     solarRadiation |-> {0, 100000, 1000000},
     windSpeed |-> {0, 2000, 30000},
     windDirection |-> {360000},
     totalRainfall |-> {500000},
     todayRainfall |-> {0, 10000, 200000}]

\* Dashboard.tsx:145: 22 + Math.random() * 10.  Math.random() is a double from
\* 0 on and below 1, and the target is a double from 22 on; for the largest
\* values Math.random() can take (1 - 2^-52, 1 - 2^-53) the sum lies half-way
\* between the double 32 and the one below it and rounds to 32.
BangaloreTemps == Range(22000, 32000)

Init ==
    /\ readings = InitialReadings
    /\ selectedCrop = "tomato"
    /\ currentWeek = 1
    /\ health = 0
    /\ daysIntoRipening = 0
    /\ effectPending = FALSE
    /\ lastOp = NoOp
    /\ prevOp = NoOp
    /\ prevReadings = InitialReadings
    /\ steps = 0
    /\ TrackingIdle
    /\ EdgeIdle
    /\ call = "none"
    /\ out = 0

\* the record kept of every handler run, and what no handler of the dashboard
\* touches
Recorded(kind, factor, value) ==
    /\ steps < MaxSteps
    /\ steps' = steps + 1
    /\ prevOp' = lastOp
    /\ lastOp' = [kind |-> kind, factor |-> factor, value |-> value]
    /\ prevReadings' = readings
    /\ UNCHANGED <<health, daysIntoRipening, effectPending, call, out>>
    /\ UNCHANGED <<trackingVars, edgeVars>>

\* what every handler of a reading does besides changing the readings
Handled(kind, factor, value) ==
    /\ Recorded(kind, factor, value)
    /\ UNCHANGED <<selectedCrop, currentWeek>>

\* a slider whose handler only stores the value
SetOnly(factor, value) ==
    /\ Handled("slider", factor, value)
    /\ readings' = [readings EXCEPT ![factor] = value]

\* a slider whose handler stores the value and then applies its effects
SetAndPropagate(factor, value) ==
    /\ Handled("slider", factor, value)
    /\ readings' = applyEnvironmentalEffects(factor, value,
                                             [readings EXCEPT ![factor] = value])

MoistureSlider == \E v \in SliderValues.moisture : SetOnly("moisture", v)

TemperatureSlider == \E v \in SliderValues.temperature : SetAndPropagate("temperature", v)

HumiditySlider == \E v \in SliderValues.humidity : SetAndPropagate("humidity", v)

SoilPhSlider == \E v \in SliderValues.soilPh : SetOnly("soilPh", v)

LightIntensitySlider == \E v \in SliderValues.lightIntensity : SetAndPropagate("lightIntensity", v)

AirPressureSlider == \E v \in SliderValues.airPressure : SetAndPropagate("airPressure", v)

SolarRadiationSlider == \E v \in SliderValues.solarRadiation : SetAndPropagate("solarRadiation", v)

WindSpeedSlider == \E v \in SliderValues.windSpeed : SetAndPropagate("windSpeed", v)

WindDirectionSlider == \E v \in SliderValues.windDirection : SetOnly("windDirection", v)

TotalRainfallSlider == \E v \in SliderValues.totalRainfall : SetOnly("totalRainfall", v)

TodayRainfallSlider == \E v \in SliderValues.todayRainfall : SetAndPropagate("todayRainfall", v)

\* Dashboard.tsx:146: prev * 0.9 + bangaloreTemp * 0.1 rounded to one decimal.
\* The double the code holds lies within a millionth of the exact sum, which
\* is a whole number of ten-thousandths, so the exact sum decides the result
\* except where it is half-way between two tenths: there the double may lie
\* below the half, and toFixed then takes the lower tenth.
Drift(prev, bangaloreTemp) ==
    IF (9 * prev + bangaloreTemp) % 1000 = 500
    THEN ToFixed1(Plus(Times(Reading(prev), Decimal(9, 10)),
                       Times(Reading(bangaloreTemp), Decimal(1, 10))))
    ELSE 100 * MathRound(9 * prev + bangaloreTemp, 1000)

\* the temperatures one tick can leave: the target grows through the doubles
\* from its least to its greatest in steps far finer than a tenth, and the
\* rounded sum grows with it, so every tenth from the one the least target
\* gives to the one the greatest gives is the outcome of some draw
DriftOutcomes(prev) ==
    { 100 * tenth :
        tenth \in (Drift(prev, BangaloreTemps.min) \div 100)..(Drift(prev, BangaloreTemps.max) \div 100) }

\* Dashboard.tsx:142-150: the 5-second timer: temperature drifts a tenth of the
\* way to a random target
ClimateTick ==
    /\ steps < MaxSteps
    /\ \E drifted \in DriftOutcomes(readings.temperature) :
          /\ Handled("tick", "temperature", drifted)
          /\ readings' = [readings EXCEPT !.temperature = drifted]

\* Dashboard.tsx:62, 379: setSelectedCrop, which CropSelector calls with the
\* id of the crop button clicked (part_006:49)
setSelectedCrop ==
    \E cropId \in CropIds :
        /\ Recorded("crop", cropId, 0)
        /\ selectedCrop' = cropId
        /\ UNCHANGED <<readings, currentWeek>>

\* Dashboard.tsx:63, 381, 906: setCurrentWeek, which the week controls call
\* with a week from 1 to the totalDuration of the selected crop (part_006:99,
\* 109, 115, 169, PlantGrowthResults.tsx:190, 246): here its two ends
setCurrentWeek ==
    \E week \in {1, CROP_DATA[selectedCrop].totalDuration} :
        /\ Recorded("week", "currentWeek", week)
        /\ currentWeek' = week
        /\ UNCHANGED <<readings, selectedCrop>>

Next ==
    \/ MoistureSlider
    \/ TemperatureSlider
    \/ HumiditySlider
    \/ SoilPhSlider
    \/ LightIntensitySlider
    \/ AirPressureSlider
    \/ SolarRadiationSlider
    \/ WindSpeedSlider
    \/ WindDirectionSlider
    \/ TotalRainfallSlider
    \/ TodayRainfallSlider
    \/ ClimateTick
    \/ setSelectedCrop
    \/ setCurrentWeek

Spec == Init /\ [][Next]_vars

\* C3: whatever sliders are moved and however often the climate timer fires,
\* moisture, humidity and light stay in [0,100], temperature in [15,45] and
\* air pressure in [850,1050].
C3_ReadingsInBounds ==
    /\ readings.moisture \in 0..100000
    /\ readings.humidity \in 0..100000
    /\ readings.lightIntensity \in 0..100000
    /\ readings.temperature \in 15000..45000
    /\ readings.airPressure \in 850000..1050000

\* the propagator has just clamped: full sun pushed light past 100 and
\* temperature past 45
C3_Witness ==
    /\ lastOp = [kind |-> "slider", factor |-> "solarRadiation", value |-> 1000000]
    /\ prevReadings.lightIntensity + 45000 > 100000
    /\ readings.lightIntensity = 100000
    /\ readings.temperature = 45000

\* the same slider has sent the same value twice in a row
Repeated == lastOp.kind = "slider" /\ prevOp = lastOp

\* the factors a change of `factor` is propagated to
Targets(factor) ==
    CASE factor = "solarRadiation" -> {"temperature", "lightIntensity", "humidity", "moisture"}
      [] factor = "temperature" -> {"humidity", "moisture", "airPressure"}
      [] factor = "todayRainfall" -> {"moisture", "humidity", "temperature"}
      [] factor = "windSpeed" -> {"moisture", "humidity", "temperature"}
      [] factor = "humidity" -> {"moisture"}
      [] factor = "airPressure" -> {"temperature"}
      [] factor = "lightIntensity" -> {"temperature", "moisture"}
      [] OTHER -> {}

Lo(field) ==
    CASE field = "temperature" -> 15000 [] field = "airPressure" -> 850000 [] OTHER -> 0

Hi(field) ==
    CASE field = "temperature" -> 45000 [] field = "airPressure" -> 1050000 [] OTHER -> 100000

\* C7 as claimed: a second application of the propagator with the same factor
\* and the same value, nothing else in between, leaves the readings as the
\* first application left them.
C7_Idempotent == Repeated => readings = prevReadings

\* every target of the repeated factor sat on a bound of its field before the
\* second application
TargetsOnBounds == \A g \in Targets(lastOp.factor) : prevReadings[g] \in {Lo(g), Hi(g)}

\* the value sent twice is the factor's normalization point: every delta is zero
AtNormalizationPoint ==
    Targets(lastOp.factor) # {} /\ lastOp.value = NormalizationPoint(lastOp.factor)

\* C7 as amended: the second application leaves the readings as the first left
\* them exactly when the value is the factor's normalization point (every
\* delta is zero) or every target of the factor already sits on a bound of
\* its field; whenever the value is off the normalization point, every target
\* that lies strictly inside its bounds is changed again.
C7_AppliedAgain ==
    Repeated =>
        /\ (readings = prevReadings) <=> (AtNormalizationPoint \/ TargetsOnBounds)
        /\ ~AtNormalizationPoint =>
              \A g \in Targets(lastOp.factor) :
                  (Lo(g) < prevReadings[g] /\ prevReadings[g] < Hi(g)) =>
                      readings[g] # prevReadings[g]

\* temperature set to 45 twice: the second application lowered humidity again
C7_Witness ==
    /\ Repeated
    /\ lastOp.factor = "temperature"
    /\ lastOp.value = 45000
    /\ readings.humidity = prevReadings.humidity - 8000

\* every field of the reading vector
Fields == DOMAIN InitialReadings

\* C22: one application of the propagator for a changed factor F stores F's
\* new value, gives each target of F its previous value plus one delta of F's
\* new value, clamped, and leaves every other factor as it was; nothing is
\* propagated on from the targets (after a temperature change moisture is its
\* previous value less (T - 25)/10 x 2, whatever humidity became), and soil pH,
\* wind direction and total rainfall change only when they are F themselves.
C22_SingleHop ==
    lastOp.kind = "slider" =>
        LET F == lastOp.factor
            once == applyEnvironmentalEffects(F, lastOp.value, prevReadings)
        IN  /\ readings[F] = lastOp.value
            /\ \A g \in Targets(F) : readings[g] = once[g]
            /\ \A g \in Fields \ (Targets(F) \cup {F}) : readings[g] = prevReadings[g]
            /\ \A g \in {"soilPh", "windDirection", "totalRainfall"} \ {F} :
                  readings[g] = prevReadings[g]
            /\ Targets(F) \cap {"soilPh", "windDirection", "totalRainfall"} = {}
            /\ F = "temperature" =>
                  readings.moisture
                      = clamp(prevReadings.moisture - ((lastOp.value - 25000) * 2) \div 10,
                              0, 100000)

\* temperature set to 45: humidity fell by 8 and moisture by 4 only, though
\* humidity is now off its own normalization point
C22_Witness ==
    /\ lastOp = [kind |-> "slider", factor |-> "temperature", value |-> 45000]
    /\ readings.humidity = prevReadings.humidity - 8000
    /\ readings.humidity # 50000
    /\ readings.moisture = prevReadings.moisture - 4000
    /\ readings.soilPh = prevReadings.soilPh

\* the last handler was the slider of `factor`, sending a value above `point`
SetAbove(factor, point) ==
    lastOp.kind = "slider" /\ lastOp.factor = factor /\ lastOp.value > point

\* C23: from any reading vector within the bounds, setting temperature above
\* 25 never increases humidity, moisture or air pressure; setting today's
\* rainfall to a positive value never decreases moisture or humidity and never
\* increases temperature; setting wind speed above 2 never increases moisture,
\* humidity or temperature.
C23_EffectDirections ==
    /\ SetAbove("temperature", 25000) =>
          /\ readings.humidity <= prevReadings.humidity
          /\ readings.moisture <= prevReadings.moisture
          /\ readings.airPressure <= prevReadings.airPressure
    /\ SetAbove("todayRainfall", 0) =>
          /\ readings.moisture >= prevReadings.moisture
          /\ readings.humidity >= prevReadings.humidity
          /\ readings.temperature <= prevReadings.temperature
    /\ SetAbove("windSpeed", 2000) =>
          /\ readings.moisture <= prevReadings.moisture
          /\ readings.humidity <= prevReadings.humidity
          /\ readings.temperature <= prevReadings.temperature

\* 10 mm of rain on the initial readings: moisture up 8, humidity up 5,
\* temperature down 0.5
C23_Witness ==
    /\ SetAbove("todayRainfall", 0)
    /\ lastOp.value = 10000
    /\ readings.moisture = prevReadings.moisture + 8000
    /\ readings.humidity = prevReadings.humidity + 5000
    /\ readings.temperature = prevReadings.temperature - 500

(***************************************************************************)
(* The analyze-field-photo edge function.  The repository holds it twice:  *)
(* part_000 validates the image before the gateway is called,              *)
(* supabase/functions/analyze-field-photo/index.ts does not.  An image is  *)
(* [kind, mediaType, base64, length, segment]: "missing" (no image field), *)
(* "number" (a value that is not a string), "text" (a string of `length`   *)
(* characters that does not start with "data:"; length 0 is the empty      *)
(* string) or "dataUrl" ("data:<mediaType>[;base64],<payload>", a payload  *)
(* of `length` characters).  `segment` is the length of                    *)
(* image.split(",")[1], the text between the first comma and the second:   *)
(* the whole payload when the payload holds no comma, and what precedes    *)
(* the payload's first comma otherwise.                                    *)
(***************************************************************************)
\* part_000:35
maxSize == 5 * 1024 * 1024

\* part_000:45: /^data:image\/(jpeg|jpg|png|webp|gif);base64,/
AcceptedMediaTypes == {"image/jpeg", "image/jpg", "image/png", "image/webp", "image/gif"}

\* part_000:16-51: the message of the constraint the image violates, "" if none
Validate(image) ==
    IF image.kind \in {"missing", "number"} \/ (image.kind = "text" /\ image.length = 0)
    THEN "Invalid image data"
    ELSE IF image.kind = "dataUrl"
         THEN IF image.segment = 0 THEN "Invalid image data format"
              ELSE IF image.segment * 3 > maxSize * 4
                   THEN "Image too large. Maximum 5MB allowed"
              ELSE IF ~(image.mediaType \in AcceptedMediaTypes /\ image.base64)
                   THEN "Invalid image format. Use JPEG, PNG, WebP, or GIF"
              ELSE ""
         ELSE ""

Failure(status, message) == [status |-> status, error |-> message, analysis |-> NoAnalysis]

Success(analysis) == [status |-> 200, error |-> "", analysis |-> analysis]

\* part_000:118-130
FallbackAnalysis ==
    Analysis(75,
             << "Image analyzed successfully",
                "General field condition appears normal",
                "Further detailed inspection recommended" >>,
             << "Continue monitoring field conditions regularly",
                "Maintain current irrigation schedule",
                "Check for early signs of pest or disease" >>)

\* part_000:14, 136-138: what req.json() rejects with for a body that is not
\* JSON, the engine's message for an empty body and for other text
ParseErrors ==
    {"Unexpected end of JSON input", "Unexpected token 'h', \"hello\" is not valid JSON"}

\* part_000:14: the TypeError of `const { image } = null`
DestructuringNull ==
    "Cannot destructure property 'image' of '(intermediate value)' as it is null."

\* part_000:59, 136-138: what fetch rejects with when the gateway is not reached
FetchErrors ==
    {"error sending request for url (https://ai.gateway.lovable.dev/v1/chat/completions)",
     "The signal has been aborted"}

\* part_000:14-57, index.ts:13-19: the Response of the handler once the body
\* is read, NoResponse if it goes on to call the gateway.  A body that is not
\* JSON and the body `null` throw at line 14 in both copies; any other JSON
\* value without an image property has image undefined.
BeforeFetch(dep, req) ==
    IF req.body = "malformed" THEN Failure(500, req.parseError)
    ELSE IF req.body = "null" THEN Failure(500, DestructuringNull)
    ELSE IF dep.source = "part_000" /\ Validate(req.image) # ""
         THEN Failure(400, Validate(req.image))
    ELSE IF ~dep.apiKey THEN Failure(500, "LOVABLE_API_KEY not configured")
    ELSE NoResponse

\* part_000:109, 136-138: what response.json() rejects with, the parser's
\* message for the body it was given: the empty body, the text
\* "Service Unavailable"; "" for a body that is JSON
JsonError(body) ==
    CASE body = "empty" -> "Unexpected end of JSON input"
      [] body = "text" -> "Unexpected token 'S', \"Service Unavailable\" is not valid JSON"
      [] OTHER -> ""

\* part_000:110, 136-138: the TypeError of data.choices[0].message.content
\* for the JSON bodies null, {} and {"choices": []}; "" for a body with
\* choices[0].message
ContentError(body) ==
    CASE body = "null" -> "Cannot read properties of null (reading 'choices')"
      [] body = "object" -> "Cannot read properties of undefined (reading '0')"
      [] body = "noChoices" -> "Cannot read properties of undefined (reading 'message')"
      [] OTHER -> ""

\* a gateway failure answered with the fallback analysis
AfterFetch_FallbackOnFailure(reply) ==
    IF ~reply.ok THEN Success(FallbackAnalysis)
    ELSE IF JsonError(reply.body) # "" THEN Failure(500, JsonError(reply.body))
    ELSE IF ContentError(reply.body) # "" THEN Failure(500, ContentError(reply.body))
    ELSE IF reply.content = "json" THEN Success(reply.analysis)
    ELSE Success(FallbackAnalysis)

\* part_000:103-146, index.ts:55-98: the Response returned for the gateway's
\* reply: a non-OK reply, an OK reply whose body is not JSON, a JSON body
\* without choices[0].message, content that JSON.parse refuses, content that
\* it parses
AfterFetch(reply) ==
    IF ~reply.ok THEN Failure(500, "Failed to analyze image")
    ELSE IF JsonError(reply.body) # "" THEN Failure(500, JsonError(reply.body))
    ELSE IF ContentError(reply.body) # "" THEN Failure(500, ContentError(reply.body))
    ELSE IF reply.content = "json" THEN Success(reply.analysis)
    ELSE Success(FallbackAnalysis)

\* the longest payload within maxSize, in base64 characters
LongestPayload == (maxSize * 4) \div 3

PayloadLengths == {0, 4, LongestPayload, LongestPayload + 1}

MediaTypes == AcceptedMediaTypes \cup {"image/bmp", "application/pdf"}

\* the media types every payload is sent with: one the pattern accepts, one
\* it refuses
PayloadMediaTypes == {"image/png", "image/bmp"}

\* a payload of n characters is one segment of n characters, or holds a comma
\* after fewer than n of them
Payloads == { p \in [length : PayloadLengths, segment : PayloadLengths] : p.segment <= p.length }

Images ==
    {NoImage,
     [kind |-> "number", mediaType |-> "", base64 |-> FALSE, length |-> 0, segment |-> 0]}
        \cup {[kind |-> "text", mediaType |-> "", base64 |-> FALSE, length |-> n,
               segment |-> 0] : n \in PayloadLengths}
        \cup {[kind |-> "dataUrl", mediaType |-> m, base64 |-> b, length |-> p.length,
               segment |-> p.segment] : m \in PayloadMediaTypes, b \in BOOLEAN, p \in Payloads}
        \cup {[kind |-> "dataUrl", mediaType |-> m, base64 |-> TRUE, length |-> 4,
               segment |-> 4] : m \in MediaTypes}

Requests ==
    {[method |-> "OPTIONS", body |-> "none", parseError |-> "", image |-> NoImage],
     [method |-> "POST", body |-> "null", parseError |-> "", image |-> NoImage]}
        \cup [method : {"POST"}, body : {"malformed"}, parseError : ParseErrors,
              image : {NoImage}]
        \cup [method : {"POST"}, body : {"object"}, parseError : {""}, image : Images]

\* a reply of the gateway: its status, its body ("text" and "empty" are not
\* JSON; "null", "object" and "noChoices" are JSON without
\* choices[0].message; "choices" has it) and, for a body with choices, the
\* message content: "prose", or "json" holding an analysis
Reply(status, body, content, analysis) ==
    [status |-> status, ok |-> status \in 200..299, body |-> body, content |-> content,
     analysis |-> analysis]

GatewayReplies ==
    {Reply(429, "text", "none", NoAnalysis),
     Reply(200, "empty", "none", NoAnalysis),
     Reply(200, "text", "none", NoAnalysis),
     Reply(200, "null", "none", NoAnalysis),
     Reply(200, "object", "none", NoAnalysis),
     Reply(200, "noChoices", "none", NoAnalysis),
     Reply(200, "choices", "prose", NoAnalysis),
     Reply(200, "choices", "json",
           Analysis(82, << "Leaves are uniformly green" >>,
                    << "Keep the current irrigation schedule" >>))}

InitEdge ==
    /\ readings = InitialReadings
    /\ selectedCrop = "tomato"
    /\ currentWeek = 1
    /\ health = 0
    /\ daysIntoRipening = 0
    /\ effectPending = FALSE
    /\ lastOp = NoOp
    /\ prevOp = NoOp
    /\ prevReadings = InitialReadings
    /\ call = "none"
    /\ out = 0
    /\ steps = 0
    /\ TrackingIdle
    /\ deployment \in [source : {"part_000", "index.ts"}, apiKey : BOOLEAN]
    /\ request = [id \in RequestIds |-> NoRequest]
    /\ edgePc = [id \in RequestIds |-> "idle"]
    /\ upstreamCalls = [id \in RequestIds |-> 0]
    /\ gatewayReply = [id \in RequestIds |-> NoReply]
    /\ response = [id \in RequestIds |-> NoResponse]

dashboardVars ==
    <<readings, selectedCrop, currentWeek, health, daysIntoRipening, effectPending,
      lastOp, prevOp, prevReadings, steps, call, out>>

\* the handlers are invoked in the order of their ids
Arrived(id) == IF id = 1 THEN TRUE ELSE edgePc[id - 1] # "idle"

\* part_000:8-14, index.ts:8-13: serve invokes the handler with a request,
\* while other requests may be in flight: a preflight is answered at once,
\* any other request waits for its body
Arrives ==
    /\ \E id \in RequestIds, req \in Requests :
          /\ edgePc[id] = "idle"
          /\ Arrived(id)
          /\ request' = [request EXCEPT ![id] = req]
          /\ IF req.method = "OPTIONS"
             THEN /\ response' = [response EXCEPT ![id] = Success(NoAnalysis)]
                  /\ edgePc' = [edgePc EXCEPT ![id] = "done"]
             ELSE /\ response' = response
                  /\ edgePc' = [edgePc EXCEPT ![id] = "parsing"]
    /\ UNCHANGED <<deployment, upstreamCalls, gatewayReply, dashboardVars, trackingVars>>

\* part_000:14-59, index.ts:13-21: await req.json() settles; the handler
\* destructures and validates the body, reads the key as it is now, and
\* returns or issues the fetch
BodyRead ==
    /\ \E id \in RequestIds :
          /\ edgePc[id] = "parsing"
          /\ IF BeforeFetch(deployment, request[id]) # NoResponse
             THEN /\ response' = [response EXCEPT ![id] = BeforeFetch(deployment, request[id])]
                  /\ edgePc' = [edgePc EXCEPT ![id] = "done"]
                  /\ upstreamCalls' = upstreamCalls
             ELSE /\ response' = response
                  /\ edgePc' = [edgePc EXCEPT ![id] = "fetching"]
                  /\ upstreamCalls' = [upstreamCalls EXCEPT ![id] = @ + 1]
    /\ UNCHANGED <<deployment, request, gatewayReply, dashboardVars, trackingVars>>

\* part_000:59, 136-145, index.ts:21, 88-97: await fetch(...) rejects, the
\* gateway was not reached: the outer catch answers with the error's message
FetchRejects ==
    /\ \E id \in RequestIds, message \in FetchErrors :
          /\ edgePc[id] = "fetching"
          /\ response' = [response EXCEPT ![id] = Failure(500, message)]
          /\ edgePc' = [edgePc EXCEPT ![id] = "done"]
    /\ UNCHANGED <<deployment, request, upstreamCalls, gatewayReply, dashboardVars, trackingVars>>

\* part_000:59-109, index.ts:21-61: await fetch(...) resolves with the
\* gateway's reply; the handler goes on to await its text or its JSON
GatewayAnswers ==
    /\ \E id \in RequestIds, reply \in GatewayReplies :
          /\ edgePc[id] = "fetching"
          /\ gatewayReply' = [gatewayReply EXCEPT ![id] = reply]
          /\ edgePc' = [edgePc EXCEPT ![id] = IF reply.ok THEN "readingJson" ELSE "readingText"]
    /\ UNCHANGED <<deployment, request, upstreamCalls, response, dashboardVars, trackingVars>>

\* part_000:104-106, 136-145, index.ts:56-58, 88-97: await response.text()
\* settles for a non-OK reply; the handler throws and the catch answers
ErrorTextRead ==
    /\ \E id \in RequestIds :
          /\ edgePc[id] = "readingText"
          /\ response' = [response EXCEPT ![id] = AfterFetch(gatewayReply[id])]
          /\ edgePc' = [edgePc EXCEPT ![id] = "done"]
    /\ UNCHANGED <<deployment, request, upstreamCalls, gatewayReply, dashboardVars, trackingVars>>

\* part_000:109-145, index.ts:61-97: await response.json() settles for an OK
\* reply; the handler answers from its content
ReplyRead ==
    /\ \E id \in RequestIds :
          /\ edgePc[id] = "readingJson"
          /\ response' = [response EXCEPT ![id] = AfterFetch(gatewayReply[id])]
          /\ edgePc' = [edgePc EXCEPT ![id] = "done"]
    /\ UNCHANGED <<deployment, request, upstreamCalls, gatewayReply, dashboardVars, trackingVars>>

\* part_000:53, index.ts:15: the LOVABLE_API_KEY secret that Deno.env.get
\* reads is set or removed, with requests in flight or not
SecretChanges ==
    /\ deployment' = [deployment EXCEPT !.apiKey = ~@]
    /\ UNCHANGED <<request, edgePc, upstreamCalls, gatewayReply, response, dashboardVars,
                   trackingVars>>

NextEdge ==
    \/ Arrives
    \/ BodyRead
    \/ FetchRejects
    \/ GatewayAnswers
    \/ ErrorTextRead
    \/ ReplyRead
    \/ SecretChanges

SpecEdge == InitEdge /\ [][NextEdge]_vars

\* what the claim counts as an image to refuse: missing or not a string, more
\* than 5MB, or a media type other than jpeg, png, webp, gif
Refusable(image) ==
    \/ image.kind \in {"missing", "number"}
    \/ image.length * 3 > maxSize * 4
    \/ image.kind = "dataUrl" /\ image.mediaType \notin AcceptedMediaTypes

FixedMessages ==
    {"Invalid image data", "Invalid image data format",
     "Image too large. Maximum 5MB allowed",
     "Invalid image format. Use JPEG, PNG, WebP, or GIF"}

\* the handler of request id has read the body
PastBody(id) == edgePc[id] \notin {"idle", "parsing"}

\* the handler of request id has returned after calling the gateway
AnsweredAfterFetch(id) == edgePc[id] = "done" /\ upstreamCalls[id] > 0

\* C24 as claimed: the endpoint answers with a 4xx response carrying a fixed
\* message, and makes no call to the upstream model, for every request whose
\* image is missing or not a string, is larger than 5MB, or is not of MIME
\* type jpeg, png, webp or gif.
C24_InvalidImageRefused ==
    \A id \in RequestIds :
        (PastBody(id) /\ request[id].body = "object" /\ Refusable(request[id].image)) =>
            /\ upstreamCalls[id] = 0
            /\ edgePc[id] = "done"
            /\ response[id].status \in 400..499
            /\ response[id].error \in FixedMessages

\* C25 as claimed: whenever the call to the gateway fails (non-OK response) the
\* endpoint still answers with the fixed neutral fallback payload instead of
\* an error response.
C25_FallbackOnGatewayFailure ==
    \A id \in RequestIds :
        (AnsweredAfterFetch(id) /\ gatewayReply[id] \in GatewayReplies /\ ~gatewayReply[id].ok) =>
            response[id] = Success(FallbackAnalysis)

\* C25 as amended: a non-OK reply of the gateway is answered with status 500
\* and {error: "Failed to analyze image"}; the fallback payload is the answer,
\* with status 200, when the gateway replied OK with content that is not
\* parseable JSON, and in no other case: a fetch that found no gateway, an OK
\* reply whose body is not JSON and one without choices are answered with
\* status 500 and no analysis.
C25_FailureIsError ==
    \A id \in RequestIds :
        AnsweredAfterFetch(id) =>
            /\ (gatewayReply[id] \in GatewayReplies /\ ~gatewayReply[id].ok) =>
                  /\ response[id] = Failure(500, "Failed to analyze image")
                  /\ response[id].analysis # FallbackAnalysis
            /\ (gatewayReply[id].ok /\ gatewayReply[id].body = "choices"
                    /\ gatewayReply[id].content = "prose") =>
                  response[id] = Success(FallbackAnalysis)
            /\ response[id] = Success(FallbackAnalysis) =>
                  /\ gatewayReply[id].ok
                  /\ gatewayReply[id].body = "choices"
                  /\ gatewayReply[id].content = "prose"
            /\ gatewayReply[id] = NoReply =>
                  /\ response[id].status = 500
                  /\ response[id].error \in FetchErrors
                  /\ response[id].analysis = NoAnalysis

\* a valid PNG went to the gateway while an earlier request was waiting for
\* the gateway, the gateway replied 429, and the caller got the 500
C25_Witness ==
    /\ edgePc[1] = "fetching"
    /\ edgePc[2] = "done"
    /\ upstreamCalls[2] = 1
    /\ request[2].image.kind = "dataUrl"
    /\ Validate(request[2].image) = ""
    /\ gatewayReply[2].status = 429
    /\ response[2].status = 500
    /\ response[2].error = "Failed to analyze image"

(***************************************************************************)
(* The week and crop controls: CropSelector (part_006) sets the crop and   *)
(* the week through Dashboard's setSelectedCrop and setCurrentWeek, and    *)
(* PlantGrowthResults runs the growth simulation, one week per tick of its *)
(* 3-second interval.                                                      *)
(***************************************************************************)
MaxSnapshots == 2

Total == CROP_DATA[selectedCrop].totalDuration

\* what neither the week controls nor the simulation touch
untouchedVars ==
    <<readings, health, daysIntoRipening, effectPending, lastOp, prevOp, prevReadings, steps,
      call, out, edgeVars>>

\* part_006:49: onCropChange(c.id)
SelectCrop ==
    /\ \E c \in CropIds : selectedCrop' = c
    /\ UNCHANGED <<currentWeek, trackingVars, untouchedVars>>

\* part_006:104-111: the range input, min 1, max crop.totalDuration
WeekSlider ==
    /\ \E w \in 1..Total : currentWeek' = w
    /\ UNCHANGED <<selectedCrop, trackingVars, untouchedVars>>

\* part_006:96-103: the "-" button, disabled at week 1
WeekMinus ==
    /\ ~(currentWeek <= 1)
    /\ currentWeek' = Max(1, currentWeek - 1)
    /\ UNCHANGED <<selectedCrop, trackingVars, untouchedVars>>

\* part_006:112-119: the "+" button, disabled from totalDuration on
WeekPlus ==
    /\ ~(currentWeek >= Total)
    /\ currentWeek' = Min(Total, currentWeek + 1)
    /\ UNCHANGED <<selectedCrop, trackingVars, untouchedVars>>

\* part_006:165-169: a click on the badge of a stage
StageBadge ==
    /\ \E i \in DOMAIN CROP_DATA[selectedCrop].stages :
          currentWeek' = CROP_DATA[selectedCrop].stages[i].startWeek
    /\ UNCHANGED <<selectedCrop, trackingVars, untouchedVars>>

\* PlantGrowthResults.tsx:280-285: start or pause, disabled from totalDuration on
ToggleTracking ==
    /\ ~(currentWeek >= Total)
    /\ isTracking' = ~isTracking
    /\ UNCHANGED <<selectedCrop, currentWeek, snapshots, untouchedVars>>

\* the tick ending the simulation one week early: newWeek >= totalDuration - 1
SimulationTick_StopsEarly ==
    /\ isTracking
    /\ LET newWeek == Min(currentWeek + 1, Total)
       IN  /\ currentWeek' = newWeek
           /\ snapshots' = Append(snapshots, newWeek)
           /\ isTracking' = IF newWeek >= Total - 1 THEN FALSE ELSE isTracking
    /\ UNCHANGED <<selectedCrop, untouchedVars>>

\* PlantGrowthResults.tsx:185-227: one firing of the interval
SimulationTick ==
    /\ isTracking
    /\ LET newWeek == Min(currentWeek + 1, Total)
       IN  /\ currentWeek' = newWeek
           /\ snapshots' = Append(snapshots, newWeek)
           /\ isTracking' = IF newWeek >= Total THEN FALSE ELSE isTracking
    /\ UNCHANGED <<selectedCrop, untouchedVars>>

\* PlantGrowthResults.tsx:243-251, 298-307: Reset, shown once a snapshot is kept
resetTracking ==
    /\ Len(snapshots) > 0
    /\ snapshots' = << >>
    /\ isTracking' = FALSE
    /\ currentWeek' = 1
    /\ UNCHANGED <<selectedCrop, untouchedVars>>

NextWeek ==
    \/ SelectCrop
    \/ WeekSlider
    \/ WeekMinus
    \/ WeekPlus
    \/ StageBadge
    \/ ToggleTracking
    \/ (Len(snapshots) < MaxSnapshots /\ SimulationTick)
    \/ resetTracking

SpecWeek == Init /\ [][NextWeek]_vars

\* C27 as claimed: in every state reachable through crop selection, the week
\* slider, the +/- week buttons, stage-badge clicks, simulation ticks and
\* reset, the current week w satisfies 1 <= w <= totalDuration of the
\* currently selected crop, so a growth stage always resolves for it.
C27_WeekWithinDuration ==
    /\ 1 <= currentWeek
    /\ currentWeek <= Total
    /\ getCurrentStage(selectedCrop, currentWeek) # NullStage

(***************************************************************************)
(* The growth simulation left to run: it is started at some week of some   *)
(* crop and nothing but its interval acts afterwards.  setInterval fires   *)
(* every 3 seconds for as long as isTracking holds (the effect re-arms it  *)
(* after every week change), which is weak fairness of the tick.           *)
(***************************************************************************)
InitSimulation ==
    /\ readings = InitialReadings
    /\ selectedCrop \in CropIds
    /\ \E c \in CropIds : currentWeek \in 1..CROP_DATA[c].totalDuration
    /\ health = 0
    /\ daysIntoRipening = 0
    /\ effectPending = FALSE
    /\ lastOp = NoOp
    /\ prevOp = NoOp
    /\ prevReadings = InitialReadings
    /\ call = "none"
    /\ out = 0
    /\ steps = 0
    /\ TrackingIdle
    /\ EdgeIdle

\* PlantGrowthResults.tsx:280-285: the button pressed while it reads "Start"
StartSimulation ==
    /\ ~isTracking
    /\ ToggleTracking

NextSimulation == StartSimulation \/ SimulationTick

SpecSimulation == InitSimulation /\ [][NextSimulation]_vars /\ WF_vars(SimulationTick)

\* C29: once the growth simulation is started at a week below totalDuration
\* and ticks keep firing with no user week/crop/reset input, each tick
\* advances the week by exactly one and appends exactly one snapshot, the
\* simulation eventually reaches week = totalDuration, at which tick tracking
\* turns off, and from then on no tick changes the week or adds a snapshot.
C29_RunsToTotalDuration ==
    /\ [][SimulationTick =>
              /\ currentWeek' = currentWeek + 1
              /\ snapshots' = Append(snapshots, currentWeek + 1)
              /\ isTracking' = (currentWeek' < Total)]_vars
    /\ [](isTracking => <>(currentWeek = Total /\ ~isTracking))
    /\ []((currentWeek = Total /\ ~isTracking) => ~ENABLED SimulationTick)
    /\ [][(currentWeek = Total /\ ~isTracking) =>
              (currentWeek' = currentWeek /\ snapshots' = snapshots)]_vars

\* tomato started at week 1 has run its 15 ticks: week 16, tracking off, one
\* snapshot for each of the weeks 2 to 16
C29_Witness ==
    /\ selectedCrop = "tomato"
    /\ currentWeek = Total
    /\ ~isTracking
    /\ Len(snapshots) = Total - 1
    /\ \A i \in DOMAIN snapshots : snapshots[i] = i + 1

=============================================================================
